---------------------------- MODULE Spec2Model ----------------------------
(***************************************************************************)
(* Model of src/alerta_oficial.py: one run of the cost / low-revenue alert *)
(* (config, connection, the ClickHouse queries, the pandas post-processing,*)
(* the CSV artifact, the Discord alert and the __main__ handler).          *)
(*                                                                         *)
(* Representation of numbers.  Money amounts are exact fixed-point         *)
(* numerators.  A raw metrics_cost v is stored as v * CostRes, so that     *)
(* cost = sum(metrics_cost) / COST_DIVISOR is the numerator of a fraction  *)
(* over CostOne = CostRes * COST_DIVISOR.  A raw revenue v is stored as    *)
(* v * RevRes, so that revenue = sum(raw) / REVENUE_DIVISOR is a numerator *)
(* over RevOne = RevRes * REVENUE_DIVISOR.  Comparisons with MAX_REVENUE   *)
(* and the rounding to 2 / 6 decimals are computed on these numerators.    *)
(*                                                                         *)
(* Timestamps are whole hours since an epoch, UTC.  Dates are day numbers. *)
(*                                                                         *)
(* SQL semantics: a LEFT JOIN fills the row without a match with NULL or   *)
(* with the default of the column's type, as the server is set up; argMax  *)
(* over rows that tie on the maximum returns any of them, and ORDER BY     *)
(* leaves rows that tie on every key in any order.                         *)
(***************************************************************************)
EXTENDS Integers, Sequences, FiniteSets, TLC

VARIABLES
  env,        \* the .env file: variable name -> Some(text), NULL when not set
  faults,     \* the stages of this run whose external call fails, and
              \* how the client library answers a query without rows
  now,        \* wall clock at the start of the run (UTC hours)
  cost_feed,  \* table gads_costs: sequence of rows
  rev_feed,   \* table gam_impressions: sequence of rows
  pc,         \* position of the run in main() / the __main__ handler
  config,     \* result of get_db_config(); [loaded |-> FALSE] before
  dates,      \* [today_sp, yday_sp, start_lb]; [set |-> FALSE] before
  cte,        \* what the CTEs of final_sql evaluated to; [set |-> FALSE] before
  df,         \* the data frame: sequence of rows, empty before the main query
  df_columns, \* the column names of the data frame, in order
  csv,        \* the file OUT_CSV: [exists, header, rows]
  alerts,     \* payloads posted to the webhook, in order
  log,        \* messages printed, as a set of tags
  queries,    \* names of the queries issued to the client, in order
  exit_code,  \* process exit status, -1 while running
  run,        \* 1 for a first run, 2 for a re-run over the same inputs
  prev_df,    \* the data frame the first run ended with (re-run only)
  script,     \* the script of src/ this behaviour runs
  world,      \* what the warehouse, the Plausible API and stdin answer
  loc,        \* local variables of the main() of the other scripts
  ret,        \* what the function called last returned
  http,       \* URLs requested from the Plausible API, in order
  saved       \* the CSV file the other scripts write: a frame, or no file

(* the variables of the scripts other than alerta_oficial *)
scriptVars == <<script, world, loc, ret, http, saved>>

vars == <<env, faults, now, cost_feed, rev_feed, pc, config, dates, cte, df, csv,
          alerts, log, queries, exit_code, run, prev_df, scriptVars, df_columns>>

(* a value that may be missing: None of Python and NULL of SQL are the
   empty tuple, a text t that is there is the tuple of t alone, so that no
   text is taken for the missing value *)
NULL == <<>>
Some(t) == <<t>>
Text(v) == v[1]

----------------------------------------------------------------------------
(* CONFIG block, src/alerta_oficial.py lines 13-21 *)

TZ_OFFSET == 3                 \* TZ = America/Sao_Paulo is UTC-3 (no DST)
REVENUE_DIVISOR == 1000000
COST_DIVISOR == 1
MAX_REVENUE == 1
LOOKBACK_DAYS == 1
FILTER_SITE_ID0 == TRUE
PREVIEW_ROWS == 50             \* df.head(50) in send_discord_alert
OUT_CSV == "sites_cost_pos_lowrev_yday_with_domain.csv"

(* fixed-point resolution of the stored amounts *)
CostRes == 10 ^ 3              \* metrics_cost carries 3 decimals
RevRes == 10 ^ 1               \* raw revenue carries 1 decimal
CostOne == CostRes * COST_DIVISOR
RevOne == RevRes * REVENUE_DIVISOR

----------------------------------------------------------------------------
(* helpers *)

Max(S) == CHOOSE x \in S : \A y \in S : y <= x

RECURSIVE SumSet(_, _)
SumSet(S, f) ==
  IF S = {} THEN 0
  ELSE LET i == CHOOSE j \in S : TRUE
       IN  f[i] + SumSet(S \ {i}, f)

Restrict(f, S) == [x \in S |-> f[x]]

(* a text is the sequence of its characters, each the number of its
   Unicode code point *)

(* the first place of s that holds a character of chars, 0 when none
   does: str.find *)
find(s, chars) ==
  LET hits == {i \in DOMAIN s : s[i] \in chars}
  IN  IF hits = {} THEN 0 ELSE CHOOSE i \in hits : \A j \in hits : i <= j

(* the last such place, 0 when there is none: str.rfind *)
rfind(s, chars) ==
  LET hits == {i \in DOMAIN s : s[i] \in chars}
  IN  IF hits = {} THEN 0 ELSE CHOOSE i \in hits : \A j \in hits : j <= i

(* s.lstrip(chars) and s.rstrip(chars): without the k characters of chars
   that s starts with, or ends with *)
lstrip_chars(s, chars) ==
  LET n == Len(s)
      k == CHOOSE k \in 0..n :
             /\ k = n \/ s[k + 1] \notin chars
             /\ \A j \in 1..k : s[j] \in chars
  IN  SubSeq(s, k + 1, n)

rstrip_chars(s, chars) ==
  LET n == Len(s)
      k == CHOOSE k \in 0..n :
             /\ k = n \/ s[n - k] \notin chars
             /\ \A j \in 1..k : s[n + 1 - j] \in chars
  IN  SubSeq(s, 1, n - k)

(* s.split(sep) for a separator of one character: the pieces between the
   separators, empty pieces included *)
RECURSIVE split_on(_, _)
split_on(s, sep) ==
  LET p == find(s, {sep})
  IN  IF p = 0 THEN <<s>>
      ELSE <<SubSeq(s, 1, p - 1)>> \o split_on(SubSeq(s, p + 1, Len(s)), sep)

(* s.partition(sep): what stands before the first sep, all of s when there
   is none, and what stands after it, nothing when there is none *)
before(s, sep) ==
  LET p == find(s, {sep}) IN IF p = 0 THEN s ELSE SubSeq(s, 1, p - 1)
after(s, sep) ==
  LET p == find(s, {sep}) IN IF p = 0 THEN <<>> ELSE SubSeq(s, p + 1, Len(s))

(* s.rpartition(sep)[2]: what stands after the last sep, all of s when
   there is none *)
after_last(s, sep) == SubSeq(s, rfind(s, {sep}) + 1, Len(s))

(* the number a sequence of decimal digits writes *)
RECURSIVE digits_value(_)
digits_value(ds) ==
  IF ds = <<>> THEN 0
  ELSE 10 * digits_value(SubSeq(ds, 1, Len(ds) - 1)) + ds[Len(ds)]

(* the digits without the leading zeros *)
drop_zeros(ds) == lstrip_chars(ds, {0})

(* str and int of the interpreter *)

(* the characters str.strip() removes, those for which str.isspace() holds:
   tab, line feed, vertical tab, form feed, carriage return, the separators
   FS GS RS US, the space, NEL, the no-break space and the spaces of
   Unicode *)
Whitespace ==
  (9..13) \cup (28..32) \cup {133, 160, 5760} \cup (8192..8202)
    \cup {8232, 8233, 8239, 8287, 12288}

lstrip(s) == lstrip_chars(s, Whitespace)
rstrip(s) == rstrip_chars(s, Whitespace)

(* str.strip() *)
strip(s) == rstrip(lstrip(s))

(* the characters c for which c.lower() is the text of the one ASCII
   character k: a small letter and its capital (and the Kelvin sign, for
   k), nothing for a capital, the character itself otherwise.  The one
   character that str.lower() turns into several, U+0130, gives a text
   that is not ASCII *)
lowers_to(k) ==
  IF k \in 97..122 THEN {k, k - 32} \cup (IF k = 107 THEN {8490} ELSE {})
  ELSE IF k \in 65..90 THEN {}
  ELSE {k}

(* s.lower() == word, for an ASCII word *)
lower_is(s, word) ==
  /\ Len(s) = Len(word)
  /\ \A i \in DOMAIN s : s[i] \in lowers_to(word[i])

(* str.split(','): the pieces between the commas, empty pieces included *)
split(s) == split_on(s, 44)

(* the interpreter.  Nothing in src/ pins it.  The scripts with a prompt
   need the f-strings of CPython 3.6 and nothing later; the annotation
   str | None of send_discord_alert needs CPython 3.10 or later for
   alerta_oficial.py.  The Unicode character database of the interpreter:
   CPython 3.6 carries Unicode 9, 3.7 Unicode 11, 3.8 Unicode 12, 3.9 and
   3.10 Unicode 13, 3.11 Unicode 14, 3.12 and 3.13 Unicode 15, 3.14
   Unicode 16 *)
UnicodeVersions == {9, 11, 12, 13, 14, 15, 16}

(* the zero of each run of ten decimal digits (category Nd) of Unicode 9:
   int() reads the digits of every script the interpreter knows *)
DigitZeros9 ==
  {48, 1632, 1776, 1984, 2406, 2534, 2662, 2790, 2918, 3046, 3174, 3302,
   3430, 3558, 3664, 3792, 3872, 4160, 4240, 6112, 6160, 6470, 6608,
   6784, 6800, 6992, 7088, 7232, 7248, 42528, 43216, 43264, 43472, 43504,
   43600, 44016, 65296, 66720, 69734, 69872, 69942, 70096, 70384, 70736,
   70864, 71248, 71360, 71472, 71904, 72784, 92768, 93008, 120782,
   120792, 120802, 120812, 120822, 125264}

(* the digits later versions have added: Masaram Gondi in Unicode 10;
   Hanifi Rohingya and Gunjala Gondi in Unicode 11; Nyiakeng Puachue Hmong
   and Wancho in Unicode 12; Dives Akuru and the segmented digits in
   Unicode 13; Tangsa in Unicode 14; Kawi and Nag Mundari in Unicode 15;
   Garay, two runs of Myanmar Extended-C, Sunuwar, Gurung Khema, Kirat
   Rai, the outlined digits and Ol Onal in Unicode 16 *)
DigitZeros(unidata) ==
  DigitZeros9
    \cup (IF unidata >= 10 THEN {73040} ELSE {})
    \cup (IF unidata >= 11 THEN {68912, 73120} ELSE {})
    \cup (IF unidata >= 12 THEN {123200, 123632} ELSE {})
    \cup (IF unidata >= 13 THEN {72016, 130032} ELSE {})
    \cup (IF unidata >= 14 THEN {92864} ELSE {})
    \cup (IF unidata >= 15 THEN {73552, 124144} ELSE {})
    \cup (IF unidata >= 16
          THEN {68928, 71376, 71386, 72688, 90416, 93552, 118000, 124401}
          ELSE {})

DigitChars(unidata) == UNION {z..(z + 9) : z \in DigitZeros(unidata)}

(* the value of a decimal digit: its distance from the zero of its run *)
AsciiDigits == 48..57
KnownDigitZeros == UNION {DigitZeros(u) : u \in UnicodeVersions}
digit(c) ==
  IF c \in AsciiDigits THEN c - 48
  ELSE c - (CHOOSE z \in KnownDigitZeros : z <= c /\ c <= z + 9)

(* sys.int_max_str_digits as the interpreter starts, where it has the
   limit: int() raises ValueError for a text of more digits, leading zeros
   counted and underscores not.  The limit came with CPython 3.11 and
   with 3.7.14, 3.8.14, 3.9.14 and 3.10.7; the releases before them, all
   of CPython 3.6 among them, have none, and PYTHONINTMAXSTRDIGITS=0 in
   the environment turns it off *)
INT_MAX_STR_DIGITS == 4300

(* the interpreters told apart by what int() does *)
Interpreters ==
  {py \in [unidata : UnicodeVersions, int_limit : BOOLEAN] :
     py.unidata = 9 => ~py.int_limit}

(* int(s) of a text under the interpreter py: the white space int() skips
   at both ends (that of str.strip() without FS GS RS US), an optional
   sign, then decimal digits with single underscores between them, at most
   INT_MAX_STR_DIGITS digits where the limit is on; ValueError
   (ok = FALSE) for anything else.  An int has no largest value: the
   result is its sign and its decimal digits without leading zeros, zero
   having none *)
int(s, py) ==
  LET t == rstrip_chars(lstrip_chars(s, Whitespace \ (28..31)),
                        Whitespace \ (28..31))
      signed == t # <<>> /\ t[1] \in {43, 45}
      body == IF signed THEN Tail(t) ELSE t
      known == DigitChars(py.unidata) \cup {95}
      wellformed ==
        /\ body # <<>>
        /\ \A i \in DOMAIN body : body[i] \in known
        /\ body[1] # 95 /\ body[Len(body)] # 95
        /\ \A i \in 1..(Len(body) - 1) : body[i] # 95 \/ body[i + 1] # 95
      shown == SelectSeq(body, LAMBDA c : c # 95)
      digits == drop_zeros([i \in DOMAIN shown |-> digit(shown[i])])
  IN  IF ~wellformed \/ (py.int_limit /\ Len(shown) > INT_MAX_STR_DIGITS)
      THEN [ok |-> FALSE, negative |-> FALSE, digits |-> <<>>]
      ELSE [ok |-> TRUE,
            negative |-> signed /\ t[1] = 45 /\ digits # <<>>,
            digits |-> digits]

(* toTimeZone(toDateTime(timestamp), TZ): the wall-clock hour in Sao Paulo *)
toTimeZone(ts) == ts - TZ_OFFSET

(* toDate of a wall-clock hour: its calendar day *)
toDate(t) == t \div 24

(* Series.round(decimals) is numpy's round of the float64 values:
   rint(x * 10^decimals) / 10^decimals.  An amount of n ticks, `one` ticks
   to 1.0, is the double x nearest to n / one; the product with
   scale = one / unit is rounded to a double y, and rint takes y to the
   nearest integer, an exact half to the even one.  All of it in integers: *)

(* floor(log2(a / b)) for a, b > 0, seven binary places at a time where
   that many are left; the amounts stay below 2^24 ticks *)
RECURSIVE floor_log2_up(_, _, _)
floor_log2_up(a, b, e) ==
  IF b <= a \div 128 THEN floor_log2_up(a, 128 * b, e + 7)
  ELSE IF b <= a \div 2 THEN floor_log2_up(a, 2 * b, e + 1)
  ELSE e

RECURSIVE floor_log2_down(_, _, _)
floor_log2_down(a, b, e) ==
  IF a <= (b - 1) \div 128 THEN floor_log2_down(128 * a, b, e - 7)
  ELSE IF a < b THEN floor_log2_down(2 * a, b, e - 1)
  ELSE e

floor_log2(a, b) ==
  IF a >= b THEN floor_log2_up(a, b, 0) ELSE floor_log2_down(a, b, 0)

(* (r * 2^k) mod m *)
RECURSIVE shift_mod(_, _, _)
shift_mod(r, k, m) ==
  IF k = 0 THEN r
  ELSE IF k >= 7 THEN shift_mod((128 * r) % m, k - 7, m)
  ELSE shift_mod((2 * r) % m, k - 1, m)

(* 2^k *)
RECURSIVE pow2(_)
pow2(k) ==
  IF k = 0 THEN 1
  ELSE IF k >= 7 THEN 128 * pow2(k - 7)
  ELSE 2 * pow2(k - 1)

(* np.rint of an exact q + r / unit: the nearest integer, the even one for
   a half; in ticks *)
rint(q, r, unit) ==
  IF 2 * r < unit THEN q * unit
  ELSE IF 2 * r > unit THEN (q + 1) * unit
  ELSE IF q % 2 = 0 THEN q * unit ELSE (q + 1) * unit

(* the float64 x nearest to n / one has a 53-bit mantissa: with
   ex = floor(log2(n / one)) it is x = (n * 2^(52-ex) + err) / (one *
   2^(52-ex)), where err, between -one/2 and one/2, completes n * 2^(52-ex)
   to a multiple of one *)
float64_err(n, one) ==
  LET rem == shift_mod(n % one, 52 - floor_log2(n, one), one)
  IN  IF 2 * rem < one THEN 0 - rem ELSE one - rem

(* x * scale when n / unit is a half q + 1/2: the product is q + 1/2 +
   err / (unit * 2^(52-ex)), and the doubles next to q + 1/2 lie 2^(E-52)
   away (half of it below a power of two), E = floor(log2(q + 1/2)); the
   product rounds to the side of err when err is beyond half that distance,
   and to q + 1/2 itself otherwise *)
product_side(n, one, unit) ==
  LET q == n \div unit
      half_gap == unit * pow2(floor_log2(2 * q + 1, 2)
                               - floor_log2(n, one) - 1)
      err == float64_err(n, one)
  IN  IF err > half_gap THEN 1
      ELSE IF 0 - err > half_gap \/ (q = 0 /\ 0 - 2 * err > half_gap)
      THEN 0 - 1
      ELSE 0

(* numpy's round of a non-negative amount of n ticks to a multiple of
   unit *)
np_round_nonneg(n, one, unit) ==
  LET q == n \div unit
      r == n % unit
      side == IF 2 * r = unit THEN product_side(n, one, unit) ELSE 0
  IN  IF side > 0 THEN (q + 1) * unit
      ELSE IF side < 0 THEN q * unit
      ELSE rint(q, r, unit)

(* numpy's round: symmetric about 0 *)
np_round(n, one, unit) ==
  IF n < 0 THEN 0 - np_round_nonneg(0 - n, one, unit)
  ELSE np_round_nonneg(n, one, unit)

(* df["cost"].round(2), df["revenue"].round(6) *)
round_cost(c) == np_round(c, CostOne, CostOne \div 100)
round_revenue(r) == np_round(r, RevOne, RevOne \div 1000000)

----------------------------------------------------------------------------
(* the queries of main(), on the tables cost (gads_costs) and rev
   (gam_impressions), for yday = yday_sp and lb = start_lb *)

(* the latest revenue timestamp taken among the rows whose local timestamp
   falls on yday *)
rev_latest_ts_by_timestamp(rev, yday) ==
  LET rows == {i \in DOMAIN rev :
                 toDate(toTimeZone(rev[i].timestamp)) = yday}
      sites == {rev[i].site_id : i \in rows}
  IN  [s \in sites |->
         Max({toTimeZone(rev[i].timestamp) :
                i \in {j \in rows : rev[j].site_id = s}})]

(* rev_latest_ts_sql: site_id -> max local timestamp among the rows whose
   date column is yday *)
rev_latest_ts_sql(rev, yday) ==
  LET rows == {i \in DOMAIN rev : rev[i].date = yday}
      sites == {rev[i].site_id : i \in rows}
  IN  [s \in sites |->
         Max({toTimeZone(rev[i].timestamp) :
                i \in {j \in rows : rev[j].site_id = s}})]

(* cost_latest_ts_sql: site_id -> max local timestamp among the rows whose
   local timestamp falls on yday *)
cost_latest_ts_sql(cost, yday) ==
  LET rows == {i \in DOMAIN cost :
                 toDate(toTimeZone(cost[i].timestamp)) = yday}
      sites == {cost[i].site_id : i \in rows}
  IN  [s \in sites |->
         Max({toTimeZone(cost[i].timestamp) :
                i \in {j \in rows : cost[j].site_id = s}})]

(* the rows of c INNER JOIN cl that pass the WHERE of cost_sites *)
cost_join_rows(cost, yday) ==
  LET cl == cost_latest_ts_sql(cost, yday)
  IN  {i \in DOMAIN cost :
         /\ cost[i].site_id \in DOMAIN cl
         /\ toTimeZone(cost[i].timestamp) = cl[cost[i].site_id]
         /\ toDate(toTimeZone(cost[i].timestamp)) = yday}

(* cost_sites with the restriction to the reporting date forgotten *)
cost_sites_any_day(cost, yday) ==
  LET sites == {cost[i].site_id : i \in DOMAIN cost}
      amount == [i \in DOMAIN cost |-> cost[i].metrics_cost]
      agg == [s \in sites |->
                SumSet({i \in DOMAIN cost : cost[i].site_id = s}, amount)]
  IN  Restrict(agg, {s \in sites : agg[s] > 0})

(* CTE cost_sites: site_id -> cost_latest, HAVING cost_latest > 0 *)
cost_sites(cost, yday) ==
  LET rows == cost_join_rows(cost, yday)
      sites == {cost[i].site_id : i \in rows}
      amount == [i \in DOMAIN cost |-> cost[i].metrics_cost]
      agg == [s \in sites |->
                SumSet({i \in rows : cost[i].site_id = s}, amount)]
  IN  Restrict(agg, {s \in sites : agg[s] > 0})

(* revenue_sites joined on the site alone: every row of the day *)
rev_join_rows_whole_day(rev, yday) ==
  {i \in DOMAIN rev : rev[i].date = yday}

(* the rows of r INNER JOIN rl that pass the WHERE of revenue_sites *)
rev_join_rows(rev, yday) ==
  LET rl == rev_latest_ts_sql(rev, yday)
  IN  {i \in DOMAIN rev :
         /\ rev[i].site_id \in DOMAIN rl
         /\ toTimeZone(rev[i].timestamp) = rl[rev[i].site_id]
         /\ rev[i].date = yday}

(* the values argMax(domain, local timestamp) may return over the rows idx:
   the domain of any row that attains the maximum *)
argMax_domain(rev, idx) ==
  LET top == Max({toTimeZone(rev[i].timestamp) : i \in idx})
  IN  {rev[i].domain : i \in {j \in idx : toTimeZone(rev[j].timestamp) = top}}

(* CTE revenue_sites, revenue column: site_id -> revenue_latest *)
revenue_latest(rev, yday) ==
  LET rows == rev_join_rows(rev, yday)
      sites == {rev[i].site_id : i \in rows}
      amount == [i \in DOMAIN rev |-> rev[i].ad_revenue]
  IN  [s \in sites |-> SumSet({i \in rows : rev[i].site_id = s}, amount)]

(* CTE revenue_sites, domain column: site_id -> the domains argMax may
   return for the group *)
domain_yday(rev, yday) ==
  LET rows == rev_join_rows(rev, yday)
      sites == {rev[i].site_id : i \in rows}
  IN  [s \in sites |-> argMax_domain(rev, {i \in rows : rev[i].site_id = s})]

(* domain_fallback_sql: site_id -> the domains argMax may return over the
   rows with lb <= date <= yday *)
domain_fallback_sql(rev, lb, yday) ==
  LET rows == {i \in DOMAIN rev : rev[i].date >= lb /\ rev[i].date <= yday}
      sites == {rev[i].site_id : i \in rows}
  IN  [s \in sites |-> argMax_domain(rev, {i \in rows : rev[i].site_id = s})]

(* one choice of argMax result per group *)
Choices(m) == {f \in [DOMAIN m -> UNION {m[s] : s \in DOMAIN m}] :
                 \A s \in DOMAIN m : f[s] \in m[s]}

(* what a LEFT JOIN puts in a column of the right side for a row without a
   match.  The client is opened with settings readonly = 1 alone, so
   join_use_nulls is that of the server: NULL with join_use_nulls = 1; with
   the default 0 the default value of the column's type, the empty text
   for a String domain and NULL for a Nullable one.  The fill of the
   revenue is NULL or 0 with it, and coalesce(rs.revenue_latest, 0) is 0
   for both *)
JoinFills == {NULL, Some("")}

(* joined as an INNER JOIN: sites without a revenue_sites row are lost *)
joined_inner(cs, rl, dy, fill) ==
  {[site_id |-> s, cost |-> cs[s], revenue |-> rl[s],
    domain_yday |-> Some(dy[s])] :
     s \in DOMAIN cs \cap DOMAIN rl}

(* joined against the rows of gam_impressions instead of the grouped
   revenue_sites: one row per revenue record of the site *)
joined_per_record(cs, rl, dy, fill) ==
  LET rows == rev_join_rows(rev_feed, dates.yday_sp)
  IN  UNION {IF s \in DOMAIN rl
             THEN {[site_id |-> s, cost |-> cs[s],
                    revenue |-> rev_feed[i].ad_revenue,
                    domain_yday |-> Some(rev_feed[i].domain)] :
                     i \in {k \in rows : rev_feed[k].site_id = s}}
             ELSE {[site_id |-> s, cost |-> cs[s], revenue |-> 0,
                    domain_yday |-> fill]} : s \in DOMAIN cs}

(* CTE joined: cost_sites LEFT JOIN revenue_sites; for a site without a
   revenue_sites row domain_yday is the fill of the join and revenue is
   coalesce(rs.revenue_latest, 0), which is 0 *)
joined(cs, rl, dy, fill) ==
  {[site_id |-> s,
    cost |-> cs[s],
    revenue |-> IF s \in DOMAIN rl THEN rl[s] ELSE 0,
    domain_yday |-> IF s \in DOMAIN dy THEN Some(dy[s]) ELSE fill] :
     s \in DOMAIN cs}

(* coalesce(j.domain_yday, df.domain_recent, 'unknown'): the first
   argument that is not NULL; the empty text is not NULL *)
coalesce_domain(d_yday, d_recent) ==
  IF d_yday # NULL THEN Text(d_yday)
  ELSE IF d_recent # NULL THEN Text(d_recent)
  ELSE "unknown"

(* CTE with_domain: joined LEFT JOIN domain_fallback; domain_recent is
   the fill of the join for a site without a domain_fallback row *)
with_domain(j, fb, fill) ==
  {[site_id |-> r.site_id,
    domain |-> coalesce_domain(r.domain_yday,
                 IF r.site_id \in DOMAIN fb THEN Some(fb[r.site_id])
                 ELSE fill),
    cost |-> r.cost,
    revenue |-> r.revenue] : r \in j}

(* the WHERE with a strict comparison of the revenue *)
where_final_strict(r) ==
  /\ r.cost > 0
  /\ r.revenue < MAX_REVENUE * RevOne
  /\ (FILTER_SITE_ID0 => r.site_id # 0)

(* the WHERE without the site_id <> 0 condition *)
where_final_any_site(r) ==
  /\ r.cost > 0
  /\ r.revenue <= MAX_REVENUE * RevOne

(* WHERE cost > 0 AND revenue <= MAX_REVENUE AND site_id <> 0 *)
where_final(r) ==
  /\ r.cost > 0
  /\ r.revenue <= MAX_REVENUE * RevOne
  /\ (FILTER_SITE_ID0 => r.site_id # 0)

(* ORDER BY revenue ASC, cost ASC *)
order_by_cost_asc(a, b) ==
  \/ a.revenue < b.revenue
  \/ a.revenue = b.revenue /\ a.cost <= b.cost

(* ORDER BY revenue ASC, cost DESC: a may come before b *)
order_by(a, b) ==
  \/ a.revenue < b.revenue
  \/ a.revenue = b.revenue /\ a.cost >= b.cost

(* the sequences ORDER BY may return for a set of rows: a row that may
   come before every other row, then an ordering of the rest *)
RECURSIVE Orderings(_)
Orderings(rows) ==
  IF rows = {} THEN {<<>>}
  ELSE UNION {{<<r>> \o s : s \in Orderings(rows \ {r})} :
                r \in {x \in rows : \A y \in rows : order_by(x, y)}}

(* the SELECT of final_sql over its CTEs, for one choice dy, fb of the
   argMax results and one fill of the two LEFT JOINs: the sequences the
   query may return *)
final_select(cs, rl, dy, fb, fill) ==
  Orderings({r \in with_domain(joined(cs, rl, dy, fill), fb, fill) :
               where_final(r)})

(* final_sql: the CTE results and row sequences the query may produce *)
final_sql(cost, rev, lb, yday) ==
  LET cs == cost_sites(cost, yday)
      rl == revenue_latest(rev, yday)
      picks == Choices(domain_yday(rev, yday))
                 \X Choices(domain_fallback_sql(rev, lb, yday))
  IN  UNION {{[cost_sites |-> cs, revenue_latest |-> rl,
               domain_yday |-> p[1], domain_recent |-> p[2], rows |-> res] :
                res \in UNION {final_select(cs, rl, p[1], p[2], fill) :
                                 fill \in JoinFills}} : p \in picks}

----------------------------------------------------------------------------
(* the run: main() and the __main__ handler *)

(* a test for None alone: the empty string passes *)
truthy_not_none(v) == v # NULL

(* the truth value of a str | None: neither None nor the empty text *)
truthy(v) == v # NULL /\ Len(Text(v)) > 0

(* get_client_db, lines 44-47: urlparse(config["url"]), p.hostname and
   p.port.  urlparse raises ValueError for a network location with one
   square bracket only, with a character that NFKC turns into a delimiter
   or, where the interpreter tests it, with a bracketed host that is
   neither an IPv6 nor an IPvFuture address; p.port raises ValueError for
   a port that is no number or lies outside 0..65535.  v is the
   interpreter: one of UrlsplitVariants *)

C0_CONTROL_OR_SPACE == 0..32
UNSAFE_URL_BYTES_TO_REMOVE == {9, 10, 13}
Letters == (65..90) \cup (97..122)
scheme_chars == Letters \cup AsciiDigits \cup {43, 45, 46}
HEX_DIGITS == AsciiDigits \cup (65..70) \cup (97..102)
MAX_PORT == 65535

(* the url without the characters urlsplit drops and without its scheme.
   v.c0_strip: the leading control characters and spaces are dropped
   (url.lstrip(_WHATWG_C0_CONTROL_OR_SPACE)); tab, line feed and carriage
   return are dropped everywhere.  The scheme is what stands before the
   first ':' when that is letters, digits, '+', '-' and '.' only and,
   with v.scheme_alpha, starts with a letter *)
after_scheme(text, v) ==
  LET kept == IF v.c0_strip THEN lstrip_chars(text, C0_CONTROL_OR_SPACE)
              ELSE text
      url == SelectSeq(kept, LAMBDA c : c \notin UNSAFE_URL_BYTES_TO_REMOVE)
      i == find(url, {58})
  IN  IF /\ i > 1
         /\ v.scheme_alpha => url[1] \in Letters
         /\ \A j \in 1..(i - 1) : url[j] \in scheme_chars
      THEN SubSeq(url, i + 1, Len(url))
      ELSE url

(* the network location: what follows a leading '//' up to the first of
   '/', '?' and '#'; empty without the '//' *)
netloc_of(text, v) ==
  LET url == after_scheme(text, v)
  IN  IF Len(url) >= 2 /\ url[1] = 47 /\ url[2] = 47
      THEN LET rest == SubSeq(url, 3, Len(url))
               delim == find(rest, {47, 63, 35})
           IN  IF delim = 0 THEN rest ELSE SubSeq(rest, 1, delim - 1)
      ELSE <<>>

(* ipaddress.IPv4Address of a text: four octets between dots, each of one
   to three ASCII digits without a leading zero, at most 255 *)
is_octet(o) ==
  /\ o # <<>> /\ Len(o) <= 3
  /\ \A i \in DOMAIN o : o[i] \in AsciiDigits
  /\ o = <<48>> \/ o[1] # 48
  /\ digits_value([i \in DOMAIN o |-> o[i] - 48]) <= 255

is_ipv4(s) ==
  LET octets == split_on(s, 46)
  IN  Len(octets) = 4 /\ \A i \in DOMAIN octets : is_octet(octets[i])

(* one group of an IPv6 address: one to four hexadecimal digits *)
is_hextet(h) ==
  h # <<>> /\ Len(h) <= 4 /\ \A i \in DOMAIN h : h[i] \in HEX_DIGITS

(* ipaddress.IPv6Address of a text: an optional '%' and scope id, then
   three to nine pieces between colons, the last one possibly an IPv4
   address that counts for two groups; eight groups, or fewer with one
   '::' that stands for the groups left out *)
is_ipv6(s) ==
  LET addr == before(s, 37)
      scope_id == after(s, 37)
      raw == split_on(addr, 58)
      dotted == find(raw[Len(raw)], {46}) # 0
      parts == IF dotted
               THEN SubSeq(raw, 1, Len(raw) - 1) \o <<<<48>>, <<48>>>>
               ELSE raw
      n == Len(parts)
      gaps == {i \in 2..(n - 1) : parts[i] = <<>>}
      skip == CHOOSE i \in gaps : TRUE
      parts_hi == IF parts[1] = <<>> THEN skip - 2 ELSE skip - 1
      parts_lo == IF parts[n] = <<>> THEN n - skip - 1 ELSE n - skip
  IN  /\ find(s, {37}) # 0 => scope_id # <<>> /\ find(scope_id, {37}) = 0
      /\ Len(raw) >= 3
      /\ dotted => is_ipv4(raw[Len(raw)])
      /\ n <= 9
      /\ IF gaps = {}
         THEN n = 8 /\ \A i \in 1..n : is_hextet(parts[i])
         ELSE /\ Cardinality(gaps) = 1
              /\ parts[1] = <<>> => parts_hi = 0
              /\ parts[n] = <<>> => parts_lo = 0
              /\ parts_hi + parts_lo <= 7
              /\ \A i \in (1..parts_hi) \cup ((n - parts_lo + 1)..n) :
                   is_hextet(parts[i])

(* _check_bracketed_host: a host that starts with 'v' has to be an
   IPvFuture address, 'v', hexadecimal digits, a dot and more; any other
   has to be an IPv6 address *)
check_bracketed_host_raises(hostname) ==
  IF hostname # <<>> /\ hostname[1] = 118
  THEN ~\E k \in 3..(Len(hostname) - 1) :
          /\ hostname[k] = 46
          /\ \A i \in 2..(k - 1) : hostname[i] \in HEX_DIGITS
  ELSE ~is_ipv6(hostname)

(* the test of the brackets in urlsplit: one bracket without the other
   raises.  For both brackets the interpreters differ: host_check "none"
   tests nothing more (CPython 3.10); "host" tests what stands between
   the first '[' and the next ']' of the network location; "netloc" takes
   the host as p.hostname does, after the last '@', allows nothing before
   the '[' and nothing but a port after the ']', and tests the host also
   when the brackets stand in the user information *)
brackets_raise(netloc, host_check) ==
  LET open == find(netloc, {91}) # 0
      close == find(netloc, {93}) # 0
      hostname_and_port == after_last(netloc, 64)
      bracketed == after(hostname_and_port, 91)
      port == after(bracketed, 93)
  IN  IF open # close THEN TRUE
      ELSE IF ~open \/ host_check = "none" THEN FALSE
      ELSE IF host_check = "host"
      THEN check_bracketed_host_raises(before(after(netloc, 91), 93))
      ELSE IF find(hostname_and_port, {91}) = 0
      THEN check_bracketed_host_raises(before(hostname_and_port, 58))
      ELSE \/ before(hostname_and_port, 91) # <<>>
           \/ port # <<>> /\ port[1] # 58
           \/ check_bracketed_host_raises(before(bracketed, 93))

(* the characters beyond ASCII that NFKC turns into a text with '/', '?',
   '#', '@' or ':' *)
NFKC_DELIMITERS ==
  {8263, 8264, 8265, 8448, 8449, 8453, 8454, 10868, 65043, 65046, 65109,
   65110, 65119, 65131, 65283, 65295, 65306, 65311, 65312}

(* _checknetloc *)
checknetloc_raises(netloc) ==
  \E i \in DOMAIN netloc : netloc[i] \in NFKC_DELIMITERS

(* the text of the port: after the last '@', what follows the first ':',
   or the first ':' after the ']' of a bracketed host *)
port_of(netloc) ==
  LET hostinfo == after_last(netloc, 64)
  IN  IF find(hostinfo, {91}) # 0
      THEN after(after(after(hostinfo, 91), 93), 58)
      ELSE after(hostinfo, 58)

(* p.port: None for no port; else the int() of the interpreter on the
   text of the port, which raises ValueError for what is no number and,
   where the limit is on, for more than INT_MAX_STR_DIGITS digits; with
   v.port_ascii only a text of ASCII digits is handed to int(); a number
   outside 0..65535 raises ValueError *)
port_raises(netloc, v) ==
  LET port == port_of(netloc)
      number == int(port, v)
  IN  /\ port # <<>>
      /\ \/ v.port_ascii /\ \E i \in DOMAIN port : port[i] \notin AsciiDigits
         \/ ~number.ok
         \/ number.negative
         \/ Len(number.digits) > 5
         \/ digits_value(number.digits) > MAX_PORT

(* the lines of get_client_db before clickhouse_connect.get_client raise
   ValueError *)
urlparse_raises(text, v) ==
  LET netloc == netloc_of(text, v)
  IN  brackets_raise(netloc, v.host_check) \/ checknetloc_raises(netloc)
        \/ port_raises(netloc, v)

(* the interpreters that run alerta_oficial.py, told apart by what
   urlsplit, p.port and int() do: the releases of CPython 3.10 to 3.14,
   with Unicode 13 or later, have brought in, one after the other, the
   limit of int(), the strip of the leading control characters, the letter
   at the start of a scheme, the port of ASCII digits and the two tests of
   a bracketed host *)
UrlsplitVariants ==
  [c0_strip : BOOLEAN, scheme_alpha : BOOLEAN,
   host_check : {"none", "host", "netloc"}, port_ascii : BOOLEAN,
   int_limit : BOOLEAN, unidata : {u \in UnicodeVersions : u >= 13}]

(* whether some interpreter raises on the url in urlparse or p.port
   (raises = TRUE), and whether some interpreter does not (raises = FALSE) *)
urlparse_may(text, raises) ==
  ~(\A v \in UrlsplitVariants : urlparse_raises(text, v) # raises)

Say(tag) == log' = log \cup {tag}

HeaderOnly == [exists |-> TRUE, header |-> TRUE, rows |-> <<>>]

(* get_db_config returns: lines 26-40, then lines 98-100 of main *)
LoadConfigOk ==
  /\ pc = "start"
  /\ truthy(env.url) /\ truthy(env.db) /\ truthy(env.usr) /\ truthy(env.pwd)
  /\ config' = [loaded |-> TRUE, url |-> env.url, db |-> env.db,
                usr |-> env.usr, pwd |-> env.pwd,
                webhook_url |-> env.webhook_url,
                mention_ids |-> env.mention_ids]
  /\ Say("config_ok")
  /\ pc' = "loaded"
  /\ UNCHANGED <<env, faults, now, cost_feed, rev_feed, dates, cte, df, csv,
                 alerts, queries, exit_code, run, prev_df, scriptVars, df_columns>>

(* get_db_config raises RuntimeError: line 38, then lines 101-103 *)
LoadConfigFail ==
  /\ pc = "start"
  /\ ~(truthy(env.url) /\ truthy(env.db) /\ truthy(env.usr) /\ truthy(env.pwd))
  /\ Say("config_error")
  /\ pc' = "raised"
  /\ UNCHANGED <<env, faults, now, cost_feed, rev_feed, config, dates, cte, df,
                 csv, alerts, queries, exit_code, run, prev_df, scriptVars, df_columns>>

(* get_client_db returns: the url parses and the client connects; lines
   105-107 *)
ConnectOk ==
  /\ pc = "loaded"
  /\ "connect" \notin faults
  /\ urlparse_may(Text(config.url), FALSE)
  /\ Say("connect_ok")
  /\ pc' = "connected"
  /\ UNCHANGED <<env, faults, now, cost_feed, rev_feed, config, dates, cte, df,
                 csv, alerts, queries, exit_code, run, prev_df, scriptVars, df_columns>>

(* get_client_db raises, in urlparse or p.port or in the connection: lines
   108-110 *)
ConnectFail ==
  /\ pc = "loaded"
  /\ \/ "connect" \in faults
     \/ urlparse_may(Text(config.url), TRUE)
  /\ Say("connect_error")
  /\ pc' = "raised"
  /\ UNCHANGED <<env, faults, now, cost_feed, rev_feed, config, dates, cte, df,
                 csv, alerts, queries, exit_code, run, prev_df, scriptVars, df_columns>>

(* the lookback counted back from the reporting date *)
ComputeDatesFromYday ==
  /\ pc = "connected"
  /\ LET today_sp == toDate(toTimeZone(now))
     IN  dates' = [set |-> TRUE,
                   today_sp |-> today_sp,
                   yday_sp |-> today_sp - 1,
                   start_lb |-> today_sp - 1 - LOOKBACK_DAYS]
  /\ pc' = "dated"
  /\ UNCHANGED <<env, faults, now, cost_feed, rev_feed, config, cte, df, csv,
                 alerts, log, queries, exit_code, run, prev_df, scriptVars, df_columns>>

(* lines 114-116: today_sp, yday_sp, start_lb *)
ComputeDates ==
  /\ pc = "connected"
  /\ LET today_sp == toDate(toTimeZone(now))
     IN  dates' = [set |-> TRUE,
                   today_sp |-> today_sp,
                   yday_sp |-> today_sp - 1,
                   start_lb |-> today_sp - LOOKBACK_DAYS]
  /\ pc' = "dated"
  /\ UNCHANGED <<env, faults, now, cost_feed, rev_feed, config, cte, df, csv,
                 alerts, log, queries, exit_code, run, prev_df, scriptVars, df_columns>>

(* one of the three debug queries, lines 248-314: issued, and a failure is
   printed and swallowed *)
DebugQuery(at, name, next) ==
  /\ pc = at
  /\ queries' = Append(queries, name)
  /\ Say(IF name \in faults THEN name \o "_error" ELSE name \o "_ok")
  /\ pc' = next
  /\ UNCHANGED <<env, faults, now, cost_feed, rev_feed, config, dates, cte, df,
                 csv, alerts, exit_code, run, prev_df, scriptVars, df_columns>>

DebugCost == DebugQuery("dated", "debug_cost", "dbg1")
DebugRev == DebugQuery("dbg1", "debug_rev", "dbg2")
DebugCostNoRev == DebugQuery("dbg2", "debug_cost_no_rev", "dbg3")

(* the columns of the SELECT of final_sql *)
FinalColumns == <<"site_id", "domain", "cost", "revenue">>

(* client.query_df(final_sql) returns: lines 317-319.  For a result
   without rows the client library returns, depending on its version, a
   frame with the columns of the query or pd.DataFrame(), which has none *)
MainQueryOk ==
  /\ pc = "dbg3"
  /\ "final" \notin faults
  /\ queries' = Append(queries, "final")
  /\ \E q \in final_sql(cost_feed, rev_feed, dates.start_lb, dates.yday_sp) :
       /\ df' = q.rows
       /\ df_columns' = IF q.rows = <<>> /\ "empty_no_columns" \in faults
                        THEN <<>> ELSE FinalColumns
       /\ cte' = [set |-> TRUE, cost_sites |-> q.cost_sites,
                  revenue_latest |-> q.revenue_latest,
                  domain_yday |-> q.domain_yday,
                  domain_recent |-> q.domain_recent]
  /\ Say("final_ok")
  /\ pc' = "queried"
  /\ UNCHANGED <<env, faults, now, cost_feed, rev_feed, config, dates, csv,
                 alerts, exit_code, run, prev_df, scriptVars>>

(* the failure of the main query is printed and the run goes on with an
   empty result, as for the debug queries *)
MainQuerySwallowed ==
  /\ pc = "dbg3"
  /\ "final" \in faults
  /\ queries' = Append(queries, "final")
  /\ Say("final_error")
  /\ pc' = "processed"
  /\ UNCHANGED <<env, faults, now, cost_feed, rev_feed, config, dates, cte, df,
                 csv, alerts, exit_code, run, prev_df, scriptVars, df_columns>>

(* client.query_df(final_sql) raises: lines 320-322 *)
MainQueryFail ==
  /\ pc = "dbg3"
  /\ "final" \in faults
  /\ queries' = Append(queries, "final")
  /\ Say("final_error")
  /\ pc' = "raised"
  /\ UNCHANGED <<env, faults, now, cost_feed, rev_feed, config, dates, cte, df,
                 csv, alerts, exit_code, run, prev_df, scriptVars, df_columns>>

(* df[df["site_id"] != 0].reset_index(drop=True): line 331 *)
drop_site0(d) == SelectSeq(d, LAMBDA r : r.site_id # 0)

(* the rows are left as the query returned them *)
round_rows_none(d) == d

(* lines 334-335 *)
round_rows(d) ==
  [i \in DOMAIN d |-> [d[i] EXCEPT !.cost = round_cost(@),
                                   !.revenue = round_revenue(@)]]

(* lines 327-336 *)
post_process(d) ==
  IF d # <<>>
  THEN round_rows(IF FILTER_SITE_ID0 THEN drop_site0(d) ELSE d)
  ELSE d

PostProcess ==
  /\ pc = "queried"
  /\ df' = post_process(df)
  /\ pc' = "processed"
  /\ UNCHANGED <<env, faults, now, cost_feed, rev_feed, config, dates, cte, csv,
                 alerts, log, queries, exit_code, run, prev_df, scriptVars, df_columns>>

(* df.to_csv succeeds: lines 341-343; the header row names the columns of
   the frame, and a frame without columns gives none *)
WriteCsvOk ==
  /\ pc = "processed"
  /\ "to_csv" \notin faults
  /\ csv' = [exists |-> TRUE, header |-> df_columns # <<>>, rows |-> df]
  /\ Say("csv_ok")
  /\ pc' = "saved"
  /\ UNCHANGED <<env, faults, now, cost_feed, rev_feed, config, dates, cte, df,
                 alerts, queries, exit_code, run, prev_df, scriptVars, df_columns>>

(* df.to_csv raises and the header-only file is written: lines 344-349 *)
WriteCsvFallback ==
  /\ pc = "processed"
  /\ "to_csv" \in faults /\ "csv_fallback" \notin faults
  /\ csv' = HeaderOnly
  /\ Say("csv_error")
  /\ pc' = "saved"
  /\ UNCHANGED <<env, faults, now, cost_feed, rev_feed, config, dates, cte, df,
                 alerts, queries, exit_code, run, prev_df, scriptVars, df_columns>>

(* df.to_csv raises and so does the open() of line 347 *)
WriteCsvFallbackFail ==
  /\ pc = "processed"
  /\ "to_csv" \in faults /\ "csv_fallback" \in faults
  /\ Say("csv_error")
  /\ pc' = "raised"
  /\ UNCHANGED <<env, faults, now, cost_feed, rev_feed, config, dates, cte, df,
                 csv, alerts, queries, exit_code, run, prev_df, scriptVars, df_columns>>

Min(a, b) == IF a <= b THEN a ELSE b

(* the site count taken from the preview instead of the whole frame *)
payload_counts_preview(d, report_date, mention_ids) ==
  [num_sites |-> Len(SubSeq(d, 1, Min(Len(d), PREVIEW_ROWS))),
   threshold |-> MAX_REVENUE,
   report_date |-> report_date,
   preview |-> SubSeq(d, 1, Min(Len(d), PREVIEW_ROWS)),
   report |-> OUT_CSV,
   content |-> IF truthy(mention_ids) THEN Text(mention_ids) ELSE ""]

(* the payload of send_discord_alert: lines 64-82 *)
payload(d, report_date, mention_ids) ==
  [num_sites |-> Len(d),
   threshold |-> MAX_REVENUE,
   report_date |-> report_date,
   preview |-> SubSeq(d, 1, Min(Len(d), PREVIEW_ROWS)),
   report |-> OUT_CSV,
   content |-> IF truthy(mention_ids) THEN Text(mention_ids) ELSE ""]

(* a missing webhook is an error of the run *)
NoWebhookRaises ==
  /\ pc = "saved" /\ df # <<>>
  /\ ~truthy(config.webhook_url)
  /\ Say("alert_no_webhook")
  /\ pc' = "raised"
  /\ UNCHANGED <<env, faults, now, cost_feed, rev_feed, config, dates, cte, df,
                 csv, alerts, queries, exit_code, run, prev_df, scriptVars, df_columns>>

(* send_discord_alert without a webhook: lines 60-62 *)
AlertNoWebhook ==
  /\ pc = "saved" /\ df # <<>>
  /\ ~truthy(config.webhook_url)
  /\ Say("alert_no_webhook")
  /\ pc' = "done"
  /\ UNCHANGED <<env, faults, now, cost_feed, rev_feed, config, dates, cte, df,
                 csv, alerts, queries, exit_code, run, prev_df, scriptVars, df_columns>>

(* the URLs at which a webhook answers *)
Webhooks == {"https://discord/hook"}

(* send_discord_alert posts: lines 64-87 *)
AlertPostOk ==
  /\ pc = "saved" /\ df # <<>>
  /\ truthy(config.webhook_url)
  /\ "alert_other" \notin faults /\ "post" \notin faults
  /\ Text(config.webhook_url) \in Webhooks
  /\ alerts' = Append(alerts, payload(df, dates.yday_sp, config.mention_ids))
  /\ Say("alert_ok")
  /\ pc' = "done"
  /\ UNCHANGED <<env, faults, now, cost_feed, rev_feed, config, dates, cte, df,
                 csv, queries, exit_code, run, prev_df, scriptVars, df_columns>>

(* requests raises a RequestException (a failed request, an answer that
   raise_for_status rejects, a URL that is none): lines 88-89 *)
AlertPostFail ==
  /\ pc = "saved" /\ df # <<>>
  /\ truthy(config.webhook_url)
  /\ "alert_other" \notin faults
  /\ "post" \in faults \/ Text(config.webhook_url) \notin Webhooks
  /\ Say("alert_error")
  /\ pc' = "done"
  /\ UNCHANGED <<env, faults, now, cost_feed, rev_feed, config, dates, cte, df,
                 csv, alerts, queries, exit_code, run, prev_df, scriptVars, df_columns>>

(* send_discord_alert raises anything that is not a RequestException; it is
   not caught in send_discord_alert nor in main *)
AlertRaises ==
  /\ pc = "saved" /\ df # <<>>
  /\ truthy(config.webhook_url)
  /\ "alert_other" \in faults
  /\ pc' = "raised"
  /\ UNCHANGED <<env, faults, now, cost_feed, rev_feed, config, dates, cte, df,
                 csv, alerts, log, queries, exit_code, run, prev_df, scriptVars, df_columns>>

(* the alert is sent for an empty result as well *)
AlertOnEmpty ==
  /\ pc = "saved" /\ df = <<>>
  /\ alerts' = Append(alerts, payload(df, dates.yday_sp, config.mention_ids))
  /\ Say("alert_ok")
  /\ pc' = "done"
  /\ UNCHANGED <<env, faults, now, cost_feed, rev_feed, config, dates, cte, df,
                 csv, queries, exit_code, run, prev_df, scriptVars, df_columns>>

(* lines 357-361 *)
NoAlert ==
  /\ pc = "saved" /\ df = <<>>
  /\ Say("no_sites")
  /\ pc' = "done"
  /\ UNCHANGED <<env, faults, now, cost_feed, rev_feed, config, dates, cte, df,
                 csv, alerts, queries, exit_code, run, prev_df, scriptVars, df_columns>>

(* main() returned: the print of line 367, and the interpreter ends with
   status 0; lines 366-367 *)
ExitOk ==
  /\ pc = "done"
  /\ Say("success")
  /\ exit_code' = 0
  /\ pc' = "exit"
  /\ UNCHANGED <<env, faults, now, cost_feed, rev_feed, config, dates, cte, df,
                 csv, alerts, queries, run, prev_df, scriptVars, df_columns>>

(* main() raised: lines 368-383 *)
ExitError ==
  /\ pc = "raised"
  /\ IF "handler_csv" \in faults
     THEN csv' = csv /\ log' = log \cup {"critical", "handler_csv_error"}
     ELSE csv' = HeaderOnly /\ log' = log \cup {"critical", "handler_csv_ok"}
  /\ exit_code' = 1
  /\ pc' = "exit"
  /\ UNCHANGED <<env, faults, now, cost_feed, rev_feed, config, dates, cte, df,
                 alerts, queries, run, prev_df, scriptVars, df_columns>>

(* the script is started again over the same tables, .env and clock; the
   file of the first run is still there *)
Rerun ==
  /\ pc = "exit" /\ exit_code = 0 /\ run = 1
  /\ run' = 2
  /\ prev_df' = df
  /\ pc' = "start"
  /\ config' = [loaded |-> FALSE]
  /\ dates' = [set |-> FALSE]
  /\ cte' = [set |-> FALSE]
  /\ df' = <<>>
  /\ df_columns' = <<>>
  /\ alerts' = <<>>
  /\ log' = {}
  /\ queries' = <<>>
  /\ exit_code' = -1
  /\ UNCHANGED <<env, faults, now, cost_feed, rev_feed, csv, scriptVars>>

Next ==
  \/ LoadConfigOk \/ LoadConfigFail
  \/ ConnectOk \/ ConnectFail
  \/ ComputeDates
  \/ DebugCost \/ DebugRev \/ DebugCostNoRev
  \/ MainQueryOk \/ MainQueryFail
  \/ PostProcess
  \/ WriteCsvOk \/ WriteCsvFallback \/ WriteCsvFallbackFail
  \/ AlertNoWebhook \/ AlertPostOk \/ AlertPostFail \/ AlertRaises
  \/ NoAlert
  \/ ExitOk \/ ExitError

NextTwice == Next \/ Rerun

----------------------------------------------------------------------------
(* initial states: the tables, the .env file, the clock and the failing
   stages a run starts from *)

MaxCostRows == 2     \* rows of gads_costs
MaxRevRows == 2      \* rows of gam_impressions

(* the UTC timestamp of wall-clock hour h of day d in Sao Paulo *)
At(d, h) == d * 24 + h + TZ_OFFSET

(* the run starts at 09:00 in Sao Paulo on day 10; the reporting date is
   the day before *)
Clock == At(10, 9)
Yday == toDate(toTimeZone(Clock)) - 1

RECURSIVE SetToSeq(_)
SetToSeq(S) ==
  IF S = {} THEN <<>>
  ELSE LET x == CHOOSE y \in S : TRUE
       IN  <<x>> \o SetToSeq(S \ {x})

(* the tables of at most n rows over the rows of S; a table is a bag, so
   one row order per bag is enough *)
Tables(S, n) ==
  LET ord == SetToSeq(S)
  IN  UNION {{[i \in 1..k |-> ord[f[i]]] :
                f \in {g \in [1..k -> 1..Len(ord)] :
                         \A i \in 1..k : i < k => g[i] <= g[i + 1]}}
             : k \in 0..n}

CostRow(s, ts, c) == [site_id |-> s, timestamp |-> ts, metrics_cost |-> c]
RevRow(s, d, ts, dom, r) ==
  [site_id |-> s, date |-> d, timestamp |-> ts, domain |-> dom, ad_revenue |-> r]

(* values of CLICKHOUSE_URL, character by character *)
URL_GOOD ==            \* https://ch:8443
  <<104, 116, 116, 112, 115, 58, 47, 47, 99, 104, 58, 56, 52, 52, 51>>
URL_NO_NETLOC ==       \* NULL
  <<78, 85, 76, 76>>
URL_PORT_RANGE ==      \* https://ch:99999
  <<104, 116, 116, 112, 115, 58, 47, 47, 99, 104, 58, 57, 57, 57, 57, 57>>
URL_PORT_TEXT ==       \* https://ch:abc
  <<104, 116, 116, 112, 115, 58, 47, 47, 99, 104, 58, 97, 98, 99>>
URL_OPEN_BRACKET ==    \* https://[ch
  <<104, 116, 116, 112, 115, 58, 47, 47, 91, 99, 104>>
URL_IPV6 ==            \* https://[::1]:8443
  <<104, 116, 116, 112, 115, 58, 47, 47, 91, 58, 58, 49, 93, 58, 56, 52,
    52, 51>>
URL_DIGIT_SCHEME ==    \* 1https://ch:abc
  <<49, 104, 116, 116, 112, 115, 58, 47, 47, 99, 104, 58, 97, 98, 99>>
URL_BAD_HOST ==        \* https://[zz]
  <<104, 116, 116, 112, 115, 58, 47, 47, 91, 122, 122, 93>>
URL_AFTER_BRACKET ==   \* https://[::1]x
  <<104, 116, 116, 112, 115, 58, 47, 47, 91, 58, 58, 49, 93, 120>>
URL_SPACE ==           \* ' https://ch:abc', a space first
  <<32, 104, 116, 116, 112, 115, 58, 47, 47, 99, 104, 58, 97, 98, 99>>
URL_SIGNED_PORT ==     \* https://ch:+80
  <<104, 116, 116, 112, 115, 58, 47, 47, 99, 104, 58, 43, 56, 48>>
URL_TANGSA_PORT ==     \* https://ch: and the Tangsa digit one
  <<104, 116, 116, 112, 115, 58, 47, 47, 99, 104, 58, 92865>>
URL_LONG_PORT ==       \* https://ch: and a port of 4300 zeros and 80
  <<104, 116, 116, 112, 115, 58, 47, 47, 99, 104, 58>>
    \o [i \in 1..INT_MAX_STR_DIGITS |-> 48] \o <<56, 48>>

GoodEnv ==
  [url |-> Some(URL_GOOD), db |-> Some("db"), usr |-> Some("u"),
   pwd |-> Some("p"), webhook_url |-> Some("https://discord/hook"),
   mention_ids |-> Some("<@1>")]

(* .env files: complete, one required variable missing or empty, the
   optional ones missing, a url without a network location, with a port
   out of range or not a number, with a half-open bracket, with an IPv6
   host *)
EnvCases ==
  {GoodEnv,
   [GoodEnv EXCEPT !.url = NULL], [GoodEnv EXCEPT !.db = Some("")],
   [GoodEnv EXCEPT !.usr = NULL], [GoodEnv EXCEPT !.pwd = Some("")],
   [GoodEnv EXCEPT !.webhook_url = NULL],
   [GoodEnv EXCEPT !.webhook_url = Some("")],
   [GoodEnv EXCEPT !.mention_ids = NULL],
   [GoodEnv EXCEPT !.webhook_url = NULL, !.mention_ids = NULL],
   [GoodEnv EXCEPT !.url = Some(URL_NO_NETLOC)],
   [GoodEnv EXCEPT !.url = Some(URL_PORT_RANGE)],
   [GoodEnv EXCEPT !.url = Some(URL_PORT_TEXT)],
   [GoodEnv EXCEPT !.url = Some(URL_OPEN_BRACKET)],
   [GoodEnv EXCEPT !.url = Some(URL_IPV6)],
   [GoodEnv EXCEPT !.webhook_url = Some("NULL")]}

(* values of CLICKHOUSE_URL the interpreters treat differently: a scheme
   that starts with a digit, a bracketed host that is no address, a text
   between the bracket and the end, a leading space, a signed port, a port
   in the digits of another script, a port of more digits than int()
   converts *)
UrlCases ==
  {[GoodEnv EXCEPT !.url = Some(u)] :
     u \in {URL_DIGIT_SCHEME, URL_BAD_HOST, URL_AFTER_BRACKET, URL_SPACE,
            URL_SIGNED_PORT, URL_TANGSA_PORT, URL_LONG_PORT}}

Stages == {"connect", "debug_cost", "debug_rev", "debug_cost_no_rev", "final",
           "to_csv", "csv_fallback", "post", "alert_other", "handler_csv"}

(* runs in which stages fail *)
FaultPlans ==
  {{}} \cup {{x} : x \in Stages}
       \cup {{"debug_cost", "debug_rev", "debug_cost_no_rev", "final"},
             {"to_csv", "csv_fallback"}, {"to_csv", "csv_fallback", "handler_csv"},
             {"alert_other", "handler_csv"}, {"final", "handler_csv"},
             {"empty_no_columns"}}

(* a run over given tables *)
InitWith(envs, plans, costs, revs) ==
  /\ env \in envs
  /\ faults \in plans
  /\ now = Clock
  /\ cost_feed \in costs
  /\ rev_feed \in revs
  /\ pc = "start"
  /\ config = [loaded |-> FALSE]
  /\ dates = [set |-> FALSE]
  /\ cte = [set |-> FALSE]
  /\ df = <<>>
  /\ df_columns = <<>>
  /\ csv = [exists |-> FALSE, header |-> FALSE, rows |-> <<>>]
  /\ alerts = <<>>
  /\ log = {}
  /\ queries = <<>>
  /\ exit_code = -1
  /\ run = 1
  /\ prev_df = <<>>
  /\ script = "alerta_oficial"
  /\ world = <<>>
  /\ loc = <<>>
  /\ ret = <<>>
  /\ http = <<>>
  /\ saved = <<>>

(* small tables for the runs that exercise the failure paths *)
SmallCost == {<<>>, <<CostRow(1, At(Yday, 10), 2 * CostOne)>>}
SmallRev == {<<>>}

InitFaulty ==
  \/ InitWith(EnvCases, FaultPlans, SmallCost, SmallRev)
  \/ InitWith(UrlCases, {{}, {"connect"}}, SmallCost, SmallRev)

(* gads_costs rows of one site (and site 0): early and late on the
   reporting date with nothing, a sub-cent and a whole amount, and one in
   the last hour of the day before *)
CostRows ==
  {CostRow(1, ts, c) : ts \in {At(Yday, 10), At(Yday, 22)}, c \in {0, 4, CostOne}}
  \cup {CostRow(1, At(Yday - 1, 23), CostOne), CostRow(0, At(Yday, 22), CostOne)}

(* gam_impressions rows of the same site: dated the day before or the
   reporting date, two timestamps, two domains, amounts around the
   threshold *)
RevRows ==
  {RevRow(1, Yday, At(Yday, 22), dom, r) :
     dom \in {"a.com", "b.com"},
     r \in {RevOne \div 2 - 4, RevOne \div 2, RevOne \div 2 + 4}}
  \cup {RevRow(1, Yday, At(Yday, 10), "a.com", r) :
          r \in {RevOne \div 2 - 4, RevOne \div 2, RevOne \div 2 + 4}}
  \cup {RevRow(1, Yday - 1, At(Yday - 1, 12), "old.com", 3)}

Init ==
  \/ InitWith({GoodEnv}, {{}}, Tables(CostRows, MaxCostRows),
              Tables(RevRows, MaxRevRows))
  \/ InitFaulty

Spec == Init /\ [][Next]_vars

(* several sites, one timestamp: costs that differ below the cent, revenues
   that differ below the sixth decimal *)
SortCostRows ==
  {CostRow(s, At(Yday, 22), c) :
     s \in {1, 2, 3}, c \in {CostOne, CostOne + 4, 2 * CostOne}}

SortRevRows ==
  {RevRow(s, Yday, At(Yday, 22), "a.com", r) : s \in {1, 2, 3}, r \in {1, 4, 6}}

InitSort ==
  \/ InitWith({GoodEnv}, {{}}, Tables(SortCostRows, MaxCostRows),
              Tables(SortRevRows, MaxRevRows))
  \/ InitFaulty

SpecSort == InitSort /\ [][Next]_vars

(* two runs over the same tables: sites that tie on cost and revenue, and
   records of one site that share ts_max under different domains *)
TwiceCostRows == {CostRow(s, At(Yday, 22), CostOne) : s \in {1, 2}}

TwiceRevRows ==
  {RevRow(1, Yday, At(Yday, 22), dom, 3) : dom \in {"a.com", "b.com"}}

InitTwice ==
  \/ InitWith({GoodEnv}, {{}}, Tables(TwiceCostRows, MaxCostRows),
              Tables(TwiceRevRows, MaxRevRows))
  \/ InitFaulty

SpecTwice == InitTwice /\ [][NextTwice]_vars

----------------------------------------------------------------------------
(* more sites with cost than the alert previews: one cost record per site,
   all different, and at most one site with revenue over the threshold *)
ManySites == PREVIEW_ROWS + 2

ManyCost(n) == [i \in 1..n |-> CostRow(i, At(Yday, 22), i * CostOne)]

InitMany ==
  \/ InitWith({GoodEnv, [GoodEnv EXCEPT !.mention_ids = NULL],
               [GoodEnv EXCEPT !.mention_ids = Some("")]},
              {{}},
              {ManyCost(n) : n \in {PREVIEW_ROWS, PREVIEW_ROWS + 1, ManySites}},
              {<<>>, <<RevRow(1, Yday, At(Yday, 22), "a.com", 2 * RevOne)>>})
  \/ InitFaulty

SpecMany == InitMany /\ [][Next]_vars

(* records around midnight: cost records whose UTC day and local day
   differ, revenue records whose `date` column and local timestamp day
   differ *)
DayCostRows ==
  {CostRow(1, At(Yday, 10), CostOne),
   CostRow(1, At(Yday, 22), 2 * CostOne),
   CostRow(1, At(Yday - 1, 23), 3 * CostOne),
   CostRow(1, At(Yday + 1, 0), 4 * CostOne)}

DayRevRows ==
  {RevRow(1, Yday, At(Yday, 10), "a.com", 5),
   RevRow(1, Yday, At(Yday + 1, 1), "b.com", 3),
   RevRow(1, Yday, At(Yday - 1, 20), "d.com", 9),
   RevRow(1, Yday - 1, At(Yday, 12), "c.com", 7)}

InitDay ==
  \/ InitWith({GoodEnv}, {{}}, Tables(DayCostRows, MaxCostRows),
              Tables(DayRevRows, MaxRevRows))
  \/ InitFaulty

SpecDay == InitDay /\ [][Next]_vars

(* amounts half-way between two cents or two millionths: 0.125 and
   0.0078125 are float64 values, exact halves; 0.545, 1.015, 0.0001255 and
   0.0001265 are not, the float64 nearest to each lies off the half *)
RoundCostRows ==
  {CostRow(1, At(Yday, 22), c) : c \in {125, 375, 545, 1015}}

RoundRevRows ==
  {RevRow(1, Yday, At(Yday, 22), "a.com", r) :
     r \in {1255, 1265, 78125, 234375}}

InitRound ==
  \/ InitWith({GoodEnv}, {{}}, Tables(RoundCostRows, MaxCostRows),
              Tables(RoundRevRows, MaxRevRows))
  \/ InitFaulty

SpecRound == InitRound /\ [][Next]_vars

(* the other scripts of src/: data frames, the warehouse helpers, the
   Plausible API helpers and cross_data *)

(* a data frame: its column names and its rows in order; pd.DataFrame() has
   neither *)
EmptyFrame == [columns |-> {}, rows |-> <<>>]

(* DataFrame.empty: an axis of length 0 *)
is_empty(f) == f.columns = {} \/ f.rows = <<>>

RequestsColumns == {"site_id", "date", "domain", "total_requests"}
SitesColumns == {"site_id", "domain", "total_requests", "days_with_data"}
Top10Columns == {"site_id", "domain", "total_requests"}

(* the warehouse helpers: client.query_df(query) in a try, the frame when it
   returns, pd.DataFrame() when it raises; outcome is what query_df does:
   it raises, or returns rows under the columns of the SELECT, each row
   with the values of these columns; for a result of no rows the client
   gives these columns or, when bare, none *)
query_helper(outcome, columns) ==
  IF outcome.ok
  THEN [columns |-> IF outcome.rows = <<>> /\ outcome.bare THEN {}
                    ELSE columns,
        rows |-> [i \in DOMAIN outcome.rows |->
                    [c \in columns |-> outcome.rows[i][c]]]]
  ELSE EmptyFrame

(* detect_plausible_api_version: the candidate base URLs in the order of
   the list *)
api_urls ==
  <<"https://wearenalytics.com/api/v1", "https://wearenalytics.com/api/v2",
    "https://plausible.io/api/v1", "https://plausible.io/api/v2">>

(* every candidate is probed and the last one that answers 200 is kept *)
detect_last_match(answers) ==
  LET hits == {i \in DOMAIN api_urls : answers[i] = "200"}
  IN  [api_base |-> IF hits = {} THEN NULL
                    ELSE Some(api_urls[CHOOSE i \in hits :
                                         \A j \in hits : j <= i]),
       requested |-> [i \in DOMAIN api_urls |-> api_urls[i] \o "/sites"]]

(* the for loop of detect_plausible_api_version from candidate i on:
   answers[i] is the status of GET api_urls[i]/sites, or "RequestException";
   the result is what is returned and the URLs requested *)
RECURSIVE probe_from(_, _)
probe_from(answers, i) ==
  IF i > Len(api_urls) THEN [api_base |-> NULL, requested |-> <<>>]
  ELSE IF answers[i] = "200"
  THEN [api_base |-> Some(api_urls[i]),
        requested |-> <<api_urls[i] \o "/sites">>]
  ELSE LET rest == probe_from(answers, i + 1)
       IN  [api_base |-> rest.api_base,
            requested |-> <<api_urls[i] \o "/sites">> \o rest.requested]

detect_plausible_api_version(answers) == probe_from(answers, 1)

(* what response.json() gives for the body of a 200 answer: a list, whose
   items are objects with the key "domain" (Some(domain)) or anything else
   (NULL); an object or a text, whose items are its keys or its characters
   (Some(key)); or a value that is no collection *)
JsonList(items) == [type |-> "list", items |-> items]
JsonObject(keys) ==
  [type |-> "object", items |-> [i \in DOMAIN keys |-> Some(keys[i])]]
JsonScalar == [type |-> "scalar", items |-> <<>>]

(* response.json() of a body that is no JSON raises
   requests.exceptions.JSONDecodeError, a RequestException, in requests
   from 2.27 on and a plain ValueError before; no version is pinned *)
JsonErrors == {"RequestException", "ValueError"}

(* GET /sites, raise_for_status, response.json() and the for loop of
   get_all_sites_from_plausible / list_all_plausible_sites: the domains in
   the order of the body; the empty list on a RequestException, the only
   exception caught; the helper is left by the KeyError of an item without
   "domain" and by the TypeError of an item that is no object, of the key
   of an object or the character of a text, and of a body that is no
   collection *)
list_all_plausible_sites(answer, json_error) ==
  IF answer.kind = "RequestException"
  THEN [raised |-> FALSE, domains |-> <<>>]
  ELSE IF answer.kind = "not_json"
  THEN [raised |-> json_error # "RequestException", domains |-> <<>>]
  ELSE LET body == answer.body
       IN  IF body.type = "list"
           THEN IF \E i \in DOMAIN body.items : body.items[i] = NULL
                THEN [raised |-> TRUE, domains |-> <<>>]
                ELSE [raised |-> FALSE,
                      domains |-> [i \in DOMAIN body.items |->
                                     Text(body.items[i])]]
           ELSE [raised |-> body.type = "scalar" \/ body.items # <<>>,
                 domains |-> <<>>]

(* the keys of the dict get_db_config of plausible_integration returns *)
ConfigKeys == {"url", "db", "usr", "pwd", "plausible_token"}

PLAUSIBLE_API_BASE == "https://wearenalytics.com/api/v1"

(* get_plausible_visitors of plausible_integration, which no main calls.
   config is the dict it is given, site_domain its optional argument,
   answer what GET /stats/timeseries does (config_dict is the parameter
   config of the source).  config["plausible_token"] and
   config["plausible_site_id"] are read before the try, so a config
   without them raises KeyError and nothing is requested; else the request
   goes to PLAUSIBLE_API_BASE, not to a detected base, for the site of the
   config, with a filter on the page when site_domain is given and not
   empty.  Inside the try a RequestException and every other exception
   give pd.DataFrame(), and so does an answer without result items, since
   df["date"] of the frame without columns raises KeyError; else the frame
   of date and visitors of the items, in order, the date of an item being
   the day that pd.to_datetime reads from its text *)
get_plausible_visitors(config_dict, site_domain, answer) ==
  IF ~({"plausible_token", "plausible_site_id"} \subseteq DOMAIN config_dict)
  THEN [raised |-> TRUE, requested |-> <<>>, frame |-> EmptyFrame]
  ELSE LET url == PLAUSIBLE_API_BASE \o "/stats/timeseries?site_id="
                    \o config_dict["plausible_site_id"]
                    \o (IF site_domain = NULL \/ site_domain = Some("")
                        THEN ""
                        ELSE "&filters=event:page==" \o Text(site_domain))
       IN  [raised |-> FALSE, requested |-> <<url>>,
            frame |-> IF answer.kind # "ok" \/ answer.results = <<>>
                      THEN EmptyFrame
                      ELSE [columns |-> {"date", "visitors"},
                            rows |-> [i \in DOMAIN answer.results |->
                                        [date |-> answer.results[i].date,
                                         visitors |->
                                           answer.results[i].visitors]]]]

(* test_plausible_token: the for loop of test_token from candidate i on;
   answers[i] is the status of GET api_urls[i]/sites, "200" when the body
   of the 200 answer is JSON with a length, "200_unreadable" when
   response.json() or len(data) raises, or "Exception" for a request that
   raises; the first candidate with a readable 200 answer is returned,
   every exception is caught and the loop goes on *)
RECURSIVE test_from(_, _)
test_from(answers, i) ==
  IF i > Len(api_urls) THEN [api_url |-> NULL, requested |-> <<>>]
  ELSE IF answers[i] = "200"
  THEN [api_url |-> Some(api_urls[i]),
        requested |-> <<api_urls[i] \o "/sites">>]
  ELSE LET rest == test_from(answers, i + 1)
       IN  [api_url |-> rest.api_url,
            requested |-> <<api_urls[i] \o "/sites">> \o rest.requested]

(* test_token: nothing is requested without a token, and the empty text
   is no token *)
test_token(token, answers) ==
  IF token = NULL \/ token = Some("")
  THEN [api_url |-> NULL, requested |-> <<>>, has_token |-> FALSE]
  ELSE [api_url |-> test_from(answers, 1).api_url,
        requested |-> test_from(answers, 1).requested, has_token |-> TRUE]

(* explore_database and search_columns.  The answer of SHOW TABLES and of
   DESCRIBE is an outcome of query_df as above: rows of the name of a
   table, or of the name and the type of a column, the name of a column a
   sequence of code points *)

tables_of_interest == <<"gam_impressions", "gads_costs">>

(* show_table_info: tables_df['name'].tolist(); [] when the query raises
   or the frame has no column 'name' *)
show_table_info(outcome) ==
  LET f == query_helper(outcome, {"name"})
  IN  IF ~outcome.ok \/ f.columns = {}
      THEN [failed |-> TRUE, tables |-> <<>>]
      ELSE [failed |-> FALSE,
            tables |-> [i \in DOMAIN f.rows |-> f.rows[i].name]]

(* show_table_structure: the queries issued for a table up to the one that
   raises, named by stage ("none" when all three return), and whether the
   except clause prints *)
show_table_structure(table, stage) ==
  [queries |-> <<"DESCRIBE " \o table>>
                 \o (IF stage = "describe" THEN <<>>
                     ELSE <<"count " \o table>>)
                 \o (IF stage \in {"describe", "count"} THEN <<>>
                     ELSE <<"sample " \o table>>),
   failed |-> stage # "none"]

KEYWORD == <<114, 101, 113, 117, 101, 115, 116>>    \* 'request'

(* the characters a small ASCII letter of a pattern matches under
   re.IGNORECASE: itself, its capital, and for i, k and s also the dotted
   capital and the dotless small i, the Kelvin sign and the long s; any
   other character of the keyword matches itself *)
ignore_case(p) ==
  IF p \in 97..122
  THEN {p, p - 32} \cup (IF p = 105 THEN {304, 305} ELSE {})
         \cup (IF p = 107 THEN {8490} ELSE {})
         \cup (IF p = 115 THEN {383} ELSE {})
  ELSE {p}

(* Series.str.contains(keyword, case=False, na=False) of one name: a
   search of the keyword anywhere in the name, False for a missing name *)
contains(name, keyword) ==
  /\ name # NULL
  /\ \E k \in 0..(Len(Text(name)) - Len(keyword)) :
       \A i \in DOMAIN keyword : Text(name)[k + i] \in ignore_case(keyword[i])

(* the body of the for loop of search_columns_with_keyword for one table:
   the columns found, and whether the inner except clause prints: when
   DESCRIBE raises or its frame has no column 'name' *)
matching_columns(table, outcome, keyword) ==
  LET f == query_helper(outcome, {"name", "type"})
      hits == SelectSeq(f.rows, LAMBDA r : contains(r.name, keyword))
  IN  IF ~outcome.ok \/ f.columns = {}
      THEN [failed |-> TRUE, found |-> <<>>]
      ELSE [failed |-> FALSE,
            found |-> [i \in DOMAIN hits |->
                         [table |-> table, column |-> Text(hits[i].name),
                          type |-> hits[i].type]]]

(* the for loop over the tables from table i on: found_columns and the
   tables whose analysis failed *)
RECURSIVE search_from(_, _, _, _)
search_from(tables, describe, keyword, i) ==
  IF i > Len(tables) THEN [found |-> <<>>, failed |-> {}]
  ELSE LET m == matching_columns(tables[i], describe[tables[i]], keyword)
           rest == search_from(tables, describe, keyword, i + 1)
       IN  [found |-> m.found \o rest.found,
            failed |-> (IF m.failed THEN {tables[i]} ELSE {}) \cup rest.failed]

(* search_columns_with_keyword: SHOW TABLES, then DESCRIBE of every table
   in the order of the listing; the outer except clause returns [] when
   SHOW TABLES raises or its frame has no column 'name' *)
search_columns_with_keyword(show, describe, keyword) ==
  LET f == query_helper(show, {"name"})
      tables == [i \in DOMAIN f.rows |-> f.rows[i].name]
      s == search_from(tables, describe, keyword, 1)
  IN  IF ~show.ok \/ f.columns = {}
      THEN [raised |-> TRUE, found |-> <<>>, failed |-> {},
            queries |-> <<"SHOW TABLES">>]
      ELSE [raised |-> FALSE, found |-> s.found, failed |-> s.failed,
            queries |-> <<"SHOW TABLES">>
                          \o [i \in DOMAIN tables |-> "DESCRIBE " \o tables[i]]]

(* sum(item["visitors"] for item in results) *)
RECURSIVE SumSeq(_)
SumSeq(s) == IF s = <<>> THEN 0 ELSE Head(s) + SumSeq(Tail(s))

(* the visitors of the result items of a timeseries answer *)
visitors_of(results) == [j \in DOMAIN results |-> results[j].visitors]

(* a site whose request fails is left out of the list *)
visitors_skip_failed(sites, stats) ==
  LET kept == SelectSeq(sites, LAMBDA s : stats[s.domain].kind = "ok")
  IN  [i \in DOMAIN kept |->
         [domain |-> kept[i].domain,
          visitors |-> SumSeq(visitors_of(stats[kept[i].domain].results))]]

(* the for loop of get_visitors_for_all_sites / _selected_sites: one
   appended row per site; stats[domain] is the answer of GET
   /stats/timeseries for the domain: kind "ok" with the visitors of each
   result item (date, visitors), or an exception of raise_for_status,
   requests.get or the reading of the body, each of which appends
   visitors 0 *)
visitors_rows(sites, stats) ==
  [i \in DOMAIN sites |->
     [domain |-> sites[i].domain,
      visitors |-> IF stats[sites[i].domain].kind = "ok"
                   THEN SumSeq(visitors_of(stats[sites[i].domain].results))
                   ELSE 0]]

(* list_plausible_visitors_yesterday: the row also carries the date, and
   the visitors are those of the first result item of that date, 0 when
   there is none *)
visitors_rows_day(sites, stats, date) ==
  [i \in DOMAIN sites |->
     LET a == stats[sites[i].domain]
         hits == SelectSeq(a.results, LAMBDA item : item.date = date)
     IN  [domain |-> sites[i].domain, date |-> date,
          visitors |-> IF a.kind = "ok" /\ hits # <<>> THEN hits[1].visitors
                       ELSE 0]]

(* pd.DataFrame(all_visitors_data): the keys of the appended dicts are the
   columns *)
visitors_frame(rows) ==
  IF rows = <<>> THEN EmptyFrame
  ELSE [columns |-> DOMAIN rows[1], rows |-> rows]

(* the timeseries URLs requested for the sites, in order *)
stats_requests(api_base, sites) ==
  [i \in DOMAIN sites |-> api_base \o "/stats/timeseries?site_id=" \o sites[i].domain]

(* str of a date: the ISO text YYYY-MM-DD of the day d, counted from
   1970-01-01 *)
two_digits(n) == IF n < 10 THEN "0" \o ToString(n) ELSE ToString(n)
astype_str(d) ==
  LET z == d + 719468
      era == z \div 146097
      doe == z - era * 146097
      yoe == (doe - doe \div 1460 + doe \div 36524 - doe \div 146096) \div 365
      doy == doe - (365 * yoe + yoe \div 4 - yoe \div 100)
      mp == (5 * doy + 2) \div 153
      day == doy - (153 * mp + 2) \div 5 + 1
      month == IF mp < 10 THEN mp + 3 ELSE mp - 9
      year == yoe + era * 400 + (IF month <= 2 THEN 1 ELSE 0)
  IN  ToString(year) \o "-" \o two_digits(month) \o "-" \o two_digits(day)

(* a float64 of the merged frame is a fraction <<numerator, denominator>>
   in lowest terms: NaN is 0/0, the infinities are 1/0 and -1/0 *)
NaN == <<0, 0>>
Inf == <<1, 0>>
NegInf == <<0 - 1, 0>>
to_float(i) == <<i, 1>>

RECURSIVE gcd(_, _)
gcd(a, b) == IF b = 0 THEN a ELSE gcd(b, a % b)

(* x / y of two float64 columns whose values are finite or NaN: NaN for a
   NaN operand and for 0 / 0, an infinity for another division by 0 *)
true_div(x, y) ==
  IF x = NaN \/ y = NaN THEN NaN
  ELSE IF y[1] = 0
  THEN (IF x[1] = 0 THEN NaN ELSE IF x[1] > 0 THEN Inf ELSE NegInf)
  ELSE LET n == IF y[1] > 0 THEN x[1] * y[2] ELSE 0 - x[1] * y[2]
           d == IF y[1] > 0 THEN x[2] * y[1] ELSE 0 - x[2] * y[1]
           g == gcd(IF n < 0 THEN 0 - n ELSE n, d)
       IN  <<n \div g, d \div g>>

(* the name of a column of the left and of the right frame in the merge:
   a name on both sides takes the suffix of its side, but for the key
   domain, one column of the result *)
left_name(c, right_columns) ==
  IF c \in right_columns /\ c # "domain" THEN c \o "_requests" ELSE c
right_name(c, left_columns) ==
  IF c \in left_columns /\ c # "domain" THEN c \o "_visitors" ELSE c

merged_columns(left_columns, right_columns) ==
  {left_name(c, right_columns) : c \in left_columns}
    \cup {right_name(c, left_columns) : c \in right_columns \ {"domain"}}

(* requests_df.merge(visitors_df, left_on = domain, date_str, right_on =
   domain, date, how = left, suffixes = _requests, _visitors): per left row
   in order, one row per matching right row in order, or one row without
   a right row: a value of a right column is Some(value), or NULL where
   the merge has nothing to put.  left and right are the two frames *)
RECURSIVE merge_rows(_, _, _)
merge_rows(rows, left, right) ==
  IF rows = <<>> THEN <<>>
  ELSE LET r == Head(rows)
           hits == SelectSeq(right.rows,
                     LAMBDA v : v.domain = r.domain /\ v.date = r.date_str)
           origin(c) ==
             CHOOSE o \in (left.columns \X {"left"})
                            \cup ((right.columns \ {"domain"}) \X {"right"}) :
               c = IF o[2] = "left" THEN left_name(o[1], right.columns)
                   ELSE right_name(o[1], left.columns)
           row(v) ==
             [c \in merged_columns(left.columns, right.columns) |->
                IF origin(c)[2] = "left" THEN r[origin(c)[1]]
                ELSE IF v = <<>> THEN NULL
                ELSE Some(v[1][origin(c)[1]])]
           out == IF hits = <<>> THEN <<row(<<>>)>>
                  ELSE [i \in DOMAIN hits |-> row(<<hits[i]>>)]
       IN  out \o merge_rows(Tail(rows), left, right)

(* a value of a right column of integers as float64: NaN where the merge
   had nothing to put *)
as_float(x) == IF x = NULL THEN NaN ELSE to_float(Text(x))

(* one column after replace([inf, -inf], None).  pandas 2 puts None for an
   infinity; before pandas 2 a list to replace with the value None means
   method = 'pad': an infinity takes the last value of the column above it
   that is none, and stays when there is none.  The version is not pinned,
   pads tells which one runs *)
replace_inf(values, pads) ==
  [i \in DOMAIN values |->
     IF values[i] \notin {Inf, NegInf} THEN values[i]
     ELSE IF ~pads THEN NULL
     ELSE LET above == {j \in 1..(i - 1) : values[j] \notin {Inf, NegInf}}
          IN  IF above = {} THEN values[i]
              ELSE values[CHOOSE j \in above : \A k \in above : k <= j]]

(* lines 303-316 of cross_data: the merge, the two ratios and the
   replacement of the infinities.  A right column has NaN where the merge
   had nothing to put, which makes a column of integers one of float64 *)
left_merge(left, right, pads) ==
  LET merged == merge_rows(left.rows, left, right)
      unmatched == \E i \in DOMAIN merged : merged[i].visitors = NULL
      from_right ==
        {right_name(c, left.columns) : c \in right.columns \ {"domain"}}
      visitors(i) == IF unmatched THEN as_float(merged[i].visitors)
                     ELSE Text(merged[i].visitors)
      requests_per_visitor ==
        replace_inf([i \in DOMAIN merged |->
                       true_div(to_float(merged[i].total_requests),
                                as_float(merged[i].visitors))], pads)
      visitors_per_request ==
        replace_inf([i \in DOMAIN merged |->
                       true_div(as_float(merged[i].visitors),
                                to_float(merged[i].total_requests))], pads)
  IN  [i \in DOMAIN merged |->
         [c \in DOMAIN merged[i]
                  \cup {"requests_per_visitor", "visitors_per_request"} |->
            IF c = "requests_per_visitor" THEN requests_per_visitor[i]
            ELSE IF c = "visitors_per_request" THEN visitors_per_request[i]
            ELSE IF c = "visitors" THEN visitors(i)
            ELSE IF c \notin from_right THEN merged[i][c]
            ELSE IF merged[i][c] = NULL THEN NaN
            ELSE Text(merged[i][c])]]

(* requests_df["date_str"] = requests_df["date"].astype(str), line 300: the
   frame of the caller gets the column *)
with_date_str(requests_df) ==
  [columns |-> requests_df.columns \cup {"date_str"},
   rows |-> [i \in DOMAIN requests_df.rows |->
               [c \in DOMAIN requests_df.rows[i] \cup {"date_str"} |->
                  IF c = "date_str" THEN astype_str(requests_df.rows[i].date)
                  ELSE requests_df.rows[i][c]]]]

(* cross_data: the empty frame when a side is empty; else the frame of the
   caller gets date_str, also when what follows raises: the merge raises
   KeyError for a key that is no column, and so do the ratios for a merged
   frame without total_requests or visitors.  requests_df is the frame of
   the caller after the call *)
cross_data(requests_df, visitors_df, pads) ==
  IF is_empty(requests_df) \/ is_empty(visitors_df)
  THEN [raised |-> FALSE, frame |-> EmptyFrame, requests_df |-> requests_df]
  ELSE IF "date" \notin requests_df.columns
  THEN [raised |-> TRUE, frame |-> EmptyFrame, requests_df |-> requests_df]
  ELSE LET left == with_date_str(requests_df)
           columns == merged_columns(left.columns, visitors_df.columns)
       IN  IF \/ "domain" \notin left.columns
              \/ ~({"domain", "date"} \subseteq visitors_df.columns)
              \/ ~({"total_requests", "visitors"} \subseteq columns)
           THEN [raised |-> TRUE, frame |-> EmptyFrame, requests_df |-> left]
           ELSE [raised |-> FALSE,
                 frame |-> [columns |-> columns
                                          \cup {"requests_per_visitor",
                                                "visitors_per_request"},
                            rows |-> left_merge(left, visitors_df, pads)],
                 requests_df |-> left]

----------------------------------------------------------------------------

(* the selection loops of clickhouse_sites_only and plausible_site_selector:
   a line typed at the prompt is the sequence of its characters, each the
   number of its Unicode code point *)

(* the number of decimal digits of n > 0 *)
RECURSIVE width(_)
width(n) == IF n < 10 THEN 1 ELSE 1 + width(n \div 10)

(* 1 <= idx <= n, for idx a result of int() *)
in_range(idx, n) ==
  /\ ~idx.negative /\ idx.digits # <<>>
  /\ Len(idx.digits) <= width(n)
  /\ digits_value(idx.digits) <= n

TOP_N == 10                    \* sites_df.head(10) for 'top10'

QUIT == <<113, 117, 105, 116>>        \* 'quit'
ALL == <<97, 108, 108>>               \* 'all'
TOP10 == <<116, 111, 112, 49, 48>>    \* 'top10'

(* a token that is no integer is skipped instead of rejecting the line *)
select_sites_skip_bad(line, n, top10, py) ==
  LET selection == strip(line)
      toks == split(selection)
      good == SelectSeq([i \in DOMAIN toks |-> int(strip(toks[i]), py)],
                        LAMBDA x : x.ok)
      valid == SelectSeq(good, LAMBDA x : in_range(x, n))
      picked == [i \in DOMAIN valid |-> digits_value(valid[i].digits)]
  IN  IF lower_is(selection, QUIT) THEN [kind |-> "quit", indices |-> <<>>]
      ELSE IF lower_is(selection, ALL)
      THEN [kind |-> "selected", indices |-> [i \in 1..n |-> i]]
      ELSE IF top10 /\ lower_is(selection, TOP10)
      THEN [kind |-> "selected", indices |-> [i \in 1..Min(n, TOP_N) |-> i]]
      ELSE IF picked # <<>> THEN [kind |-> "selected", indices |-> picked]
      ELSE [kind |-> "none_valid", indices |-> <<>>]

(* one pass of the while True loop over a list of n sites: what the typed
   line does and the 1-based indices it selects, in order; top10 tells
   whether the script knows 'top10' (clickhouse_sites_only does,
   plausible_site_selector does not), py the interpreter *)
select_sites(line, n, top10, py) ==
  LET selection == strip(line)
      toks == split(selection)
      ints == [i \in DOMAIN toks |-> int(strip(toks[i]), py)]
      valid == SelectSeq(ints, LAMBDA x : in_range(x, n))
      picked == [i \in DOMAIN valid |-> digits_value(valid[i].digits)]
  IN  IF lower_is(selection, QUIT) THEN [kind |-> "quit", indices |-> <<>>]
      ELSE IF lower_is(selection, ALL)
      THEN [kind |-> "selected", indices |-> [i \in 1..n |-> i]]
      ELSE IF top10 /\ lower_is(selection, TOP10)
      THEN [kind |-> "selected", indices |-> [i \in 1..Min(n, TOP_N) |-> i]]
      ELSE IF \E i \in DOMAIN ints : ~ints[i].ok
      THEN [kind |-> "invalid_format", indices |-> <<>>]
      ELSE IF picked # <<>> THEN [kind |-> "selected", indices |-> picked]
      ELSE [kind |-> "none_valid", indices |-> <<>>]

----------------------------------------------------------------------------
(* the mains of the other scripts of src/: analyze_all_sites,
   analyze_top10_sites, clickhouse_sites_only, plausible_integration,
   plausible_site_selector, list_plausible_visitors_yesterday,
   explore_database and search_columns, and test_token of
   test_plausible_token.  world
   holds what the run meets outside the program: whether configuration and
   connection succeed, what the two warehouse queries do, what the
   candidate APIs answer at each detection, what GET /sites and GET
   /stats/timeseries answer, the lines typed at the prompt, whether the
   result file can be written, what SHOW TABLES, DESCRIBE and the queries
   over a table do, and the token and the answers test_token meets.  loc
   holds the locals of main. *)

mainVars == <<env, faults, now, cost_feed, rev_feed, config, dates, cte, df,
              df_columns, csv, alerts, run, prev_df>>

WarehouseScripts ==
  {"analyze_all_sites", "analyze_top10_sites", "clickhouse_sites_only"}
CrossingScripts == {"plausible_integration", "plausible_site_selector"}
PlausibleScripts == CrossingScripts \cup {"list_plausible_visitors_yesterday"}
InteractiveScripts == {"clickhouse_sites_only", "plausible_site_selector"}
CatalogScripts == {"explore_database", "search_columns"}

(* the stage main enters after configuration and connection *)
first_stage(s) ==
  IF s \in WarehouseScripts THEN "list_sites"
  ELSE IF s = "plausible_integration" THEN "requests"
  ELSE IF s = "explore_database" THEN "show_table_info"
  ELSE IF s = "search_columns" THEN "search"
  ELSE "detect"

(* the name of the helper that lists the sites in each warehouse script *)
list_helper(s) ==
  IF s = "analyze_all_sites" THEN "get_all_sites_with_requests"
  ELSE IF s = "analyze_top10_sites" THEN "get_top10_sites_with_requests"
  ELSE "list_sites_with_requests"

(* the columns of the SELECT of the listing helper: the top 10 come
   without days_with_data *)
list_columns(s) ==
  IF s = "analyze_top10_sites" THEN Top10Columns ELSE SitesColumns

(* the rows the listing loop of main prints, row['domain'][:k] of each:
   all_sites_df.head(10) in analyze_all_sites, every row elsewhere *)
HEAD_ROWS == 10
printed_rows(s, rows) ==
  IF s = "analyze_all_sites" /\ Len(rows) > HEAD_ROWS
  THEN SubSeq(rows, 1, HEAD_ROWS)
  ELSE rows

(* df['site_id'].tolist() *)
site_ids(rows) == [i \in DOMAIN rows |-> rows[i].site_id]

(* the optional AND site_id IN (...) of get_detailed_requests_data: no
   filter for None or an empty list *)
detail_outcome(outcome, selected) ==
  IF ~outcome.ok \/ selected = <<>> THEN outcome
  ELSE [ok |-> TRUE,
        rows |-> SelectSeq(outcome.rows,
                   LAMBDA r : \E i \in DOMAIN selected : selected[i] = r.site_id),
        bare |-> outcome.bare]

(* the dict appended per site of GET /sites in each Plausible script *)
site_entry(s, i, domain) ==
  IF s = "plausible_site_selector"
  THEN [index |-> i, site_id |-> domain, domain |-> domain]
  ELSE IF s = "plausible_integration"
  THEN [site_id |-> domain, domain |-> domain]
  ELSE [domain |-> domain]

(* return code from main: exit(main()) *)
Return(code, tags) ==
  /\ pc' = "return"
  /\ exit_code' = code
  /\ log' = log \cup tags

(* get_db_config and get_client_db succeed *)
SetupOk ==
  /\ pc = "setup"
  /\ world.setup = "ok"
  /\ pc' = first_stage(script)
  /\ UNCHANGED <<mainVars, script, world, loc, ret, http, saved, log,
                 queries, exit_code>>

(* get_db_config or get_client_db raises: the except Exception of main *)
SetupFail ==
  /\ pc = "setup"
  /\ world.setup # "ok"
  /\ Return(1, {"fatal"})
  /\ UNCHANGED <<mainVars, script, world, loc, ret, http, saved, queries>>

(* the listing query of the warehouse scripts, the .empty test after it
   and the loop that prints the listing: the slice of a domain that is
   None raises TypeError, which the except Exception of main turns into
   return 1 *)
ListSites ==
  /\ script \in WarehouseScripts
  /\ pc = "list_sites"
  /\ LET r == query_helper(world.sites_query, list_columns(script))
         printed == printed_rows(script, r.rows)
         raises == \E i \in DOMAIN printed : printed[i].domain = NULL
         goes_on == ~is_empty(r) /\ ~raises
     IN  /\ queries' = Append(queries, "sites")
         /\ ret' = [helper |-> list_helper(script), query |-> "sites_query",
                    frame |-> r]
         /\ loc' = [loc EXCEPT !.sites_df = r,
                               !.selected =
                                 IF script = "analyze_top10_sites" /\ goes_on
                                 THEN site_ids(r.rows) ELSE <<>>]
         /\ IF is_empty(r)
            THEN Return(1, {"no_sites"})
            ELSE IF raises
            THEN Return(1, {"fatal"})
            ELSE /\ pc' = IF script = "clickhouse_sites_only" THEN "select"
                          ELSE "detail"
                 /\ UNCHANGED <<log, exit_code>>
  /\ UNCHANGED <<mainVars, script, world, http, saved>>

(* the number of entries the prompt can refer to *)
listed ==
  IF script = "clickhouse_sites_only" THEN Len(loc.sites_df.rows)
  ELSE Len(loc.all_sites)

(* the listed entry at a 1-based index: sites_df.iloc[idx-1]['site_id'] or
   all_sites[idx-1] *)
listed_entry(k) ==
  IF script = "clickhouse_sites_only" THEN loc.sites_df.rows[k].site_id
  ELSE loc.all_sites[k]

(* what the line at the prompt does *)
typed == select_sites(world.stdin[loc.pos], listed,
                      script = "clickhouse_sites_only", world.py)

AtPrompt ==
  /\ script \in InteractiveScripts
  /\ pc = "select"

(* input() at the end of the input raises EOFError, which the except
   Exception of main turns into return 1 *)
SelectEOF ==
  /\ AtPrompt
  /\ loc.pos > Len(world.stdin)
  /\ Return(1, {"fatal"})
  /\ UNCHANGED <<mainVars, script, world, loc, ret, http, saved, queries>>

(* 'quit': return 0 *)
SelectQuit ==
  /\ AtPrompt
  /\ loc.pos <= Len(world.stdin)
  /\ typed.kind = "quit"
  /\ loc' = [loc EXCEPT !.pos = @ + 1]
  /\ Return(0, {"quit"})
  /\ UNCHANGED <<mainVars, script, world, ret, http, saved, queries>>

(* 'all', 'top10' or indices of which one is in range: break *)
SelectBreak ==
  /\ AtPrompt
  /\ loc.pos <= Len(world.stdin)
  /\ typed.kind = "selected"
  /\ loc' = [loc EXCEPT !.pos = @ + 1,
                        !.selected = [i \in DOMAIN typed.indices |->
                                        listed_entry(typed.indices[i])]]
  /\ pc' = IF script = "clickhouse_sites_only" THEN "detail" ELSE "requests"
  /\ UNCHANGED <<mainVars, script, world, ret, http, saved, queries, log,
                 exit_code>>

(* a ValueError of int() or no index in range: a message and the prompt
   again *)
SelectReprompt ==
  /\ AtPrompt
  /\ loc.pos <= Len(world.stdin)
  /\ typed.kind \in {"invalid_format", "none_valid"}
  /\ loc' = [loc EXCEPT !.pos = @ + 1]
  /\ log' = log \cup {typed.kind}
  /\ UNCHANGED <<mainVars, script, world, ret, http, saved, queries, pc,
                 exit_code>>

(* save_results: nothing for an empty frame, else to_csv, whose failure
   reaches the except Exception of main *)
SaveAndReturn(frame) ==
  IF is_empty(frame) THEN Return(0, {"nothing_to_save"}) /\ UNCHANGED saved
  ELSE IF world.to_csv = "ok" THEN Return(0, {"saved"}) /\ saved' = frame
  ELSE Return(1, {"fatal"}) /\ UNCHANGED saved

(* get_detailed_requests_data of the warehouse scripts, the .empty test
   and save_results *)
Detail ==
  /\ script \in WarehouseScripts
  /\ pc = "detail"
  /\ LET r == query_helper(detail_outcome(world.requests_query, loc.selected),
                           RequestsColumns)
     IN  /\ queries' = Append(queries, "detail")
         /\ ret' = [helper |-> "get_detailed_requests_data",
                    query |-> "requests_query", frame |-> r]
         /\ IF is_empty(r)
            THEN Return(1, {"no_detail"}) /\ UNCHANGED saved
            ELSE SaveAndReturn(r)
  /\ UNCHANGED <<mainVars, script, world, loc, http>>

(* get_requests_data of the crossing scripts and the .empty test *)
Requests ==
  /\ script \in CrossingScripts
  /\ pc = "requests"
  /\ LET r == query_helper(world.requests_query, RequestsColumns)
     IN  /\ queries' = Append(queries, "requests")
         /\ ret' = [helper |-> "get_requests_data",
                    query |-> "requests_query", frame |-> r]
         /\ loc' = [loc EXCEPT !.requests_df = r]
         /\ IF is_empty(r)
            THEN Return(1, {"no_requests"})
            ELSE /\ pc' = IF script = "plausible_integration"
                          THEN "all_sites" ELSE "visitors"
                 /\ UNCHANGED <<log, exit_code>>
  /\ UNCHANGED <<mainVars, script, world, http, saved>>

(* api_base = detect_plausible_api_version(config) in main, and the test
   of its result *)
Detect ==
  /\ script \in PlausibleScripts
  /\ pc = "detect"
  /\ LET d == detect_plausible_api_version(world.probes[loc.detects + 1])
     IN  /\ http' = http \o d.requested
         /\ loc' = [loc EXCEPT !.detects = @ + 1, !.api_base = d.api_base]
         /\ IF d.api_base = NULL
            THEN Return(1, {"no_api"})
            ELSE /\ pc' = IF script = "plausible_integration"
                          THEN "visitors" ELSE "all_sites"
                 /\ UNCHANGED <<log, exit_code>>
  /\ UNCHANGED <<mainVars, script, world, ret, saved, queries>>

(* get_all_sites_from_plausible (which detects the API itself) or
   list_all_plausible_sites (which is given api_base): GET /sites and the
   list of the domains; then the test of main.  An exception that leaves
   the helper reaches the except Exception of main *)
AllSites ==
  /\ script \in PlausibleScripts
  /\ pc = "all_sites"
  /\ \E json_error \in JsonErrors :
       LET own == script = "plausible_integration"
           d == IF own
                THEN detect_plausible_api_version(world.probes[loc.detects + 1])
                ELSE [api_base |-> loc.api_base, requested |-> <<>>]
           asked == d.api_base # NULL
           answer == list_all_plausible_sites(world.sites_api, json_error)
           sites == IF asked
                    THEN [i \in DOMAIN answer.domains |->
                            site_entry(script, i, answer.domains[i])]
                    ELSE <<>>
       IN  /\ http' = http \o d.requested
                        \o (IF asked THEN <<Text(d.api_base) \o "/sites">>
                            ELSE <<>>)
           /\ loc' = [loc EXCEPT !.detects = IF own THEN @ + 1 ELSE @,
                                 !.all_sites = sites]
           /\ IF asked /\ answer.raised
              THEN Return(1, {"fatal"})
              ELSE IF sites = <<>>
              THEN Return(1, {"no_sites"})
              ELSE /\ pc' = IF own THEN "detect"
                            ELSE IF script = "plausible_site_selector"
                            THEN "select" ELSE "visitors"
                   /\ UNCHANGED <<log, exit_code>>
  /\ UNCHANGED <<mainVars, script, world, ret, saved, queries>>

(* get_visitors_for_all_sites / get_visitors_for_selected_sites and the
   .empty test; list_plausible_visitors_yesterday saves the frame *)
Visitors ==
  /\ script \in PlausibleScripts
  /\ pc = "visitors"
  /\ LET sites == IF script = "plausible_site_selector" THEN loc.selected
                  ELSE loc.all_sites
         rows == IF script = "list_plausible_visitors_yesterday"
                 THEN visitors_rows_day(sites, world.stats, Yday)
                 ELSE visitors_rows(sites, world.stats)
         frame == visitors_frame(rows)
     IN  /\ http' = http \o stats_requests(Text(loc.api_base), sites)
         /\ loc' = [loc EXCEPT !.visitors_df = frame]
         /\ IF is_empty(frame)
            THEN Return(1, {"no_visitors"}) /\ UNCHANGED saved
            ELSE IF script = "list_plausible_visitors_yesterday"
            THEN SaveAndReturn(frame)
            ELSE /\ pc' = "cross"
                 /\ UNCHANGED <<log, exit_code, saved>>
  /\ UNCHANGED <<mainVars, script, world, ret, queries>>

(* merged_df = cross_data(requests_df, visitors_df) and save_results; the
   KeyError of the merge reaches the except Exception of main; requests_df
   of main is the frame cross_data has written to *)
Cross ==
  /\ script \in CrossingScripts
  /\ pc = "cross"
  /\ \E pads \in BOOLEAN :
       LET c == cross_data(loc.requests_df, loc.visitors_df, pads)
       IN  /\ loc' = [loc EXCEPT !.requests_df = c.requests_df]
           /\ IF c.raised
              THEN Return(1, {"fatal"}) /\ UNCHANGED saved
              ELSE SaveAndReturn(c.frame)
  /\ UNCHANGED <<mainVars, script, world, ret, http, queries>>

(* explore_database: tables = show_table_info(client, db) *)
ShowTableInfo ==
  /\ script = "explore_database"
  /\ pc = "show_table_info"
  /\ LET r == show_table_info(world.show_tables)
     IN  /\ queries' = Append(queries, "SHOW TABLES")
         /\ loc' = [loc EXCEPT !.tables = r.tables]
         /\ log' = log \cup (IF r.failed THEN {"tables_error"} ELSE {})
  /\ pc' = "tables_of_interest"
  /\ UNCHANGED <<mainVars, script, world, ret, http, saved, exit_code>>

(* explore_database: one pass of the loop over tables_of_interest, and the
   return 0 after the last *)
ShowTableStructure ==
  /\ script = "explore_database"
  /\ pc = "tables_of_interest"
  /\ LET table == tables_of_interest[loc.at]
         listed_table == \E i \in DOMAIN loc.tables : loc.tables[i] = table
         r == show_table_structure(table, world.structure[table])
         tags == IF ~listed_table THEN {"not_found"}
                 ELSE IF r.failed THEN {"table_error"} ELSE {}
     IN  /\ queries' = IF listed_table THEN queries \o r.queries ELSE queries
         /\ loc' = [loc EXCEPT !.at = @ + 1]
         /\ IF loc.at = Len(tables_of_interest)
            THEN Return(0, tags \cup {"finished"})
            ELSE /\ log' = log \cup tags
                 /\ UNCHANGED <<pc, exit_code>>
  /\ UNCHANGED <<mainVars, script, world, ret, http, saved>>

(* search_columns: found_columns = search_columns_with_keyword(client,
   db, "request") and return 0 *)
SearchColumns ==
  /\ script = "search_columns"
  /\ pc = "search"
  /\ LET r == search_columns_with_keyword(world.show_tables, world.describe,
                                          KEYWORD)
     IN  /\ queries' = queries \o r.queries
         /\ loc' = [loc EXCEPT !.found_columns = r.found]
         /\ Return(0, (IF r.raised THEN {"search_error"} ELSE {})
                        \cup (IF r.failed # {} THEN {"table_error"} ELSE {})
                        \cup (IF r.found = <<>> /\ ~r.raised
                              THEN {"none_found"} ELSE {})
                        \cup {"finished"})
  /\ UNCHANGED <<mainVars, script, world, ret, http, saved>>

(* test_plausible_token: test_token(), whose result the script drops; the
   process ends with status 0 *)
TestToken ==
  /\ script = "test_plausible_token"
  /\ pc = "test_token"
  /\ LET r == test_token(world.token, world.token_probes)
     IN  /\ http' = http \o r.requested
         /\ loc' = [loc EXCEPT !.api_base = r.api_url]
         /\ Return(0, IF ~r.has_token THEN {"no_token"}
                       ELSE IF r.api_url = NULL THEN {"none_worked"}
                       ELSE {"api_found"})
  /\ UNCHANGED <<mainVars, script, world, ret, saved, queries>>

(* a call of plausible_integration.get_plausible_visitors by a program that
   imports the module: no main of src/ makes it *)
GetPlausibleVisitors ==
  /\ script = "plausible_integration.get_plausible_visitors"
  /\ pc = "call"
  /\ LET r == get_plausible_visitors(
                world.config, world.site_domain,
                IF "plausible_site_id" \in DOMAIN world.config
                THEN world.stats[world.config["plausible_site_id"]]
                ELSE [kind |-> "Exception", results |-> <<>>])
     IN  /\ http' = http \o r.requested
         /\ loc' = [loc EXCEPT !.visitors_df = r.frame]
         /\ log' = log \cup (IF r.raised THEN {"KeyError"} ELSE {"returned"})
  /\ pc' = "returned"
  /\ UNCHANGED <<mainVars, script, world, ret, saved, queries, exit_code>>

NextScripts ==
  \/ SetupOk \/ SetupFail
  \/ ListSites
  \/ SelectEOF \/ SelectQuit \/ SelectBreak \/ SelectReprompt
  \/ Detail
  \/ Requests
  \/ Detect
  \/ AllSites
  \/ Visitors
  \/ Cross
  \/ ShowTableInfo \/ ShowTableStructure
  \/ SearchColumns
  \/ TestToken
  \/ GetPlausibleVisitors

----------------------------------------------------------------------------
(* initial states of the other scripts *)

MaxStdin == 2                  \* lines typed at the prompt before it ends
MaxSites == 3                  \* sites in the answer of GET /sites

ManyListed == TOP_N + 2        \* a listing longer than 'top10' takes

(* the site names of the Plausible account and of the warehouse *)
Domains == {"a.com", "b.com", "c.com"}

domain_of(i) == "site" \o ToString(i) \o ".com"

(* the answer of the listing query for n sites, most requests first; the
   domain of a row is a text or NULL *)
Listing(n) ==
  [i \in 1..n |-> [site_id |-> 100 + i, domain |-> Some(domain_of(i)),
                   total_requests |-> (n + 1 - i) * 100,
                   days_with_data |-> 1]]

(* the listing with no domain in row k *)
NoDomain(rows, k) == [rows EXCEPT ![k].domain = NULL]

(* the answer of the requests query: one row per site of the listing and
   day, ordered by site and date *)
RequestRows(n) ==
  [i \in 1..n |-> [site_id |-> 100 + i, date |-> Yday,
                   domain |-> domain_of(i),
                   total_requests |-> (n + 1 - i) * 100]]

(* requests of the domains of the Plausible account *)
CrossRequestRows ==
  <<[site_id |-> 101, date |-> Yday, domain |-> "a.com",
     total_requests |-> 300],
    [site_id |-> 102, date |-> Yday, domain |-> "b.com",
     total_requests |-> 200],
    [site_id |-> 104, date |-> Yday, domain |-> "d.com",
     total_requests |-> 100]>>

Failed == [ok |-> FALSE, rows |-> <<>>, bare |-> FALSE]
Answered(rows) == [ok |-> TRUE, rows |-> rows, bare |-> FALSE]
Bare(outcome) == [outcome EXCEPT !.bare = TRUE]

QueryOutcomes(rows) ==
  {Failed, Answered(<<>>), Bare(Answered(<<>>)), Answered(rows)}

ProbeAnswers == {"200", "404", "500", "RequestException"}
AllProbes == [DOMAIN api_urls -> ProbeAnswers]
FirstUp == [i \in DOMAIN api_urls |-> "200"]
AllDown == [i \in DOMAIN api_urls |-> "RequestException"]

SiteLists == UNION {[1..n -> Domains] : n \in 0..MaxSites}

item(d, v) == [date |-> d, visitors |-> v]
StatAnswers ==
  {[kind |-> "ok", results |-> <<item(Yday, 5)>>],
   [kind |-> "ok", results |-> <<item(Yday - 1, 3), item(Yday, 7)>>],
   [kind |-> "RequestException", results |-> <<>>],
   [kind |-> "Exception", results |-> <<>>]}
AllStats == [Domains -> StatAnswers]
StatsUp == [d \in Domains |-> [kind |-> "ok", results |-> <<item(Yday, 5)>>]]
ManyStats ==
  [d \in {domain_of(i) : i \in 1..ManyListed} |->
     [kind |-> "ok", results |-> <<item(Yday, 5)>>]]

(* the answers of GET /sites: a list of sites, a request that raises, a
   body that is no JSON, and bodies of another shape *)
SitesUp(domains) ==
  [kind |-> "ok",
   body |-> JsonList([i \in DOMAIN domains |-> Some(domains[i])])]
SitesDown == [kind |-> "RequestException", body |-> JsonScalar]
SitesNotJson == [kind |-> "not_json", body |-> JsonScalar]
ThreeSites == <<"a.com", "b.com", "c.com">>
SitesMalformed ==
  {[kind |-> "ok", body |-> body] :
     body \in {JsonList(<<Some("a.com"), NULL>>),     \* an item without "domain"
               JsonObject(<<"sites", "meta">>),       \* the sites under a key
               JsonObject(<<>>),                      \* {}
               JsonScalar}}                           \* null

Nines(n) == [i \in 1..n |-> 57]

(* lines typed at the prompt that every interpreter reads alike *)
StdinLines ==
  {QUIT,
   <<32, 81, 117, 105, 116, 13>>,        \* ' Quit' and a carriage return
   <<97, 108, 108, 9>>,                  \* 'all' and a tab
   <<65, 108, 108>>,                     \* 'All'
   TOP10,
   <<49>>,                               \* '1'
   <<50, 44, 49>>,                       \* '2,1'
   <<32, 49, 160, 44, 9, 51, 32>>,       \* ' 1', no-break space, ',', tab, '3 '
   <<48>>,                               \* '0'
   <<57, 57>>,                           \* '99'
   <<49, 44, 57, 57>>,                   \* '1,99'
   <<49, 44, 120>>,                      \* '1,x'
   <<>>,                                 \* the empty line
   <<49, 44, 44, 50>>,                   \* '1,,2'
   <<45, 49>>,                           \* '-1'
   <<49, 95, 50>>,                       \* '1_2'
   <<49, 44, 49>>,                       \* '1,1'
   <<65298, 44, 1635>>,                  \* fullwidth 2, ',', Arabic-Indic 3
   <<49, 95, 95, 50>>,                   \* '1__2'
   <<57, 57, 57, 57, 57, 57, 57, 57, 57, 57, 57, 57>>}  \* '999999999999'
Stdins == UNION {[1..n -> StdinLines] : n \in 0..MaxStdin}

(* lines the interpreters read differently: more digits than the limit of
   int() lets through, and digits of scripts that came with Unicode 10 to
   16 *)
InterpreterLines ==
  {Nines(INT_MAX_STR_DIGITS + 1),        \* more nines than int() converts
   <<49, 44>> \o Nines(INT_MAX_STR_DIGITS + 1),  \* '1,' and as many
   <<73042>>,                            \* the Masaram Gondi digit two
   <<68913>>,                            \* the Hanifi Rohingya digit one
   <<123201>>,                           \* the Nyiakeng Puachue Hmong digit one
   <<72017>>,                            \* the Dives Akuru digit one
   <<130033, 44, 49>>,                   \* the segmented digit one, ',1'
   <<92865>>,                            \* the Tangsa digit one
   <<73553>>,                            \* the Kawi digit one
   <<124146, 44, 49>>,                   \* the Nag Mundari digit two, ',1'
   <<68930>>}                            \* the Garay digit two

(* inputs with such a line, alone or before or after a plain one *)
InterpreterStdins ==
  {<<l>> : l \in InterpreterLines}
    \cup {<<l, p>> : l \in InterpreterLines, p \in {<<49>>, <<49, 44, 120>>}}
    \cup {<<p, l>> : l \in InterpreterLines, p \in {<<49>>, <<49, 44, 120>>}}

(* the interpreter of the runs whose input every interpreter reads alike *)
AnyInterpreter == [unidata |-> 14, int_limit |-> TRUE]

(* the inputs of a script with a prompt, each with the interpreters that
   tell it apart *)
TypedInputs ==
  {[stdin |-> s, py |-> AnyInterpreter] : s \in Stdins}
    \cup {[stdin |-> s, py |-> py] :
            s \in InterpreterStdins, py \in Interpreters}

(* the tables of the warehouse as SHOW TABLES lists them, the columns of
   each as DESCRIBE lists them, and the stage of show_table_structure at
   which a query over a table raises *)
TableNames == {"gam_impressions", "gads_costs", "sites"}
Column(name, type) == [name |-> Some(name), type |-> type]
NamesOf(tables) == Answered([i \in DOMAIN tables |-> [name |-> tables[i]]])
ShowTablesAnswers ==
  {Failed, Answered(<<>>), Bare(Answered(<<>>)),
   NamesOf(<<"gads_costs">>),
   NamesOf(<<"gam_impressions", "gads_costs">>),
   NamesOf(<<"sites", "gads_costs", "gam_impressions">>)}
DescribeAnswers ==
  {Failed, Bare(Answered(<<>>)),
   Answered(<<Column(<<115, 105, 116, 101, 95, 105, 100>>, "UInt32"),
              \* 'site_id'
              Column(<<97, 100, 95, 114, 101, 113, 117, 101, 115, 116, 115>>,
                     "UInt64"),
              \* 'ad_requests'
              Column(<<82, 69, 81, 85, 69, 383, 84>>, "String")>>),
              \* 'REQUE', the long s, 'T'
   Answered(<<Column(<<114, 101, 113, 117, 101, 115>>, "String"),
              \* 'reques'
              Column(<<82, 101, 81, 117, 69, 115, 84, 115>>, "UInt64"),
              \* 'ReQuEsTs'
              Column(<<114, 101, 113, 117, 101, 115, 357>>, "String")>>)}
              \* 'reques' and t with caron
StructureStages == {"none", "describe", "count", "sample"}
AllFine == [t \in TableNames |-> "none"]
NoColumns == [t \in TableNames |-> Answered(<<>>)]

(* the dict get_db_config returns, and one that also names a site *)
DbConfig == [k \in ConfigKeys |-> "x"]
SiteConfig ==
  [k \in ConfigKeys \cup {"plausible_site_id"} |->
     IF k = "plausible_site_id" THEN "a.com" ELSE "x"]

TokenAnswers ==
  {"200", "200_unreadable", "401", "403", "404", "500", "Exception"}

World(setup, sites_query, requests_query, probes, sites_api, stats, stdin,
      to_csv, py) ==
  [setup |-> setup, sites_query |-> sites_query,
   requests_query |-> requests_query, probes |-> probes,
   sites_api |-> sites_api, stats |-> stats, stdin |-> stdin,
   to_csv |-> to_csv, py |-> py,
   show_tables |-> Failed, describe |-> NoColumns, structure |-> AllFine,
   token |-> NULL, token_probes |-> FirstUp,
   config |-> DbConfig, site_domain |-> NULL]

(* the warehouse scripts: what the two queries do, the setup and the file *)
WarehouseWorlds ==
  {World(setup, sq, rq, <<FirstUp, FirstUp>>, SitesDown, StatsUp, <<ALL>>,
         to_csv, AnyInterpreter) :
     setup \in {"ok", "raises"}, sq \in QueryOutcomes(Listing(2)),
     rq \in QueryOutcomes(RequestRows(2)), to_csv \in {"ok", "OSError"}}
  \cup
  {World("ok", Answered(sq), Answered(RequestRows(ManyListed)),
         <<FirstUp, FirstUp>>, SitesDown, StatsUp, <<ALL>>, "ok",
         AnyInterpreter) :
     sq \in {NoDomain(Listing(2), 2),
             NoDomain(Listing(ManyListed), ManyListed)}}

(* clickhouse_sites_only at the prompt: short and long listings *)
PromptWorlds ==
  {World("ok", Answered(Listing(n)), rq, <<FirstUp, FirstUp>>, SitesDown,
         StatsUp, t.stdin, "ok", t.py) :
     n \in {MaxSites, ManyListed},
     rq \in {Failed, Answered(RequestRows(ManyListed))}, t \in TypedInputs}

(* plausible_site_selector at the prompt: short and long accounts *)
SelectorWorlds ==
  {World("ok", Failed, Answered(CrossRequestRows), <<FirstUp, FirstUp>>,
         SitesUp(sites), stats, t.stdin, "ok", t.py) :
     sites \in {ThreeSites}, stats \in {StatsUp}, t \in TypedInputs}
  \cup
  {World("ok", Failed, Answered(CrossRequestRows), <<FirstUp, FirstUp>>,
         SitesUp([i \in 1..ManyListed |-> domain_of(i)]), ManyStats,
         t.stdin, "ok", t.py) : t \in TypedInputs}

(* the Plausible scripts: every pattern of answers of the four candidates,
   the same or none at a second detection *)
DetectWorlds ==
  {World("ok", Failed, Answered(CrossRequestRows), <<p, q>>,
         SitesUp(ThreeSites), StatsUp, <<ALL>>, "ok", AnyInterpreter) :
     p \in AllProbes, q \in {FirstUp, AllDown}}

(* the Plausible scripts: every list of sites and every pattern of answers
   of the timeseries requests *)
VisitorWorlds ==
  {World("ok", Failed, Answered(CrossRequestRows), <<FirstUp, FirstUp>>,
         SitesUp(sites), stats, <<ALL>>, "ok", AnyInterpreter) :
     sites \in SiteLists, stats \in AllStats}

(* the Plausible scripts: the failures of the other stages *)
PlausibleFaultWorlds ==
  {World(setup, Failed, rq, <<FirstUp, FirstUp>>, api, StatsUp, <<ALL>>,
         to_csv, AnyInterpreter) :
     setup \in {"ok", "raises"}, rq \in QueryOutcomes(CrossRequestRows),
     api \in {SitesDown, SitesUp(ThreeSites)}, to_csv \in {"ok", "OSError"}}
  \cup
  {World("ok", Failed, Answered(CrossRequestRows), <<FirstUp, FirstUp>>, api,
         StatsUp, <<ALL>>, "ok", AnyInterpreter) :
     api \in SitesMalformed \cup {SitesNotJson}}

(* a world of the scripts that meet neither the Plausible API nor a prompt *)
PlainWorld(setup) ==
  World(setup, Failed, Failed, <<FirstUp, FirstUp>>, SitesDown, StatsUp,
        <<>>, "ok", AnyInterpreter)

(* explore_database: every listing and, for the two tables of interest,
   every stage at which a query raises *)
ExploreWorlds ==
  {[PlainWorld(setup) EXCEPT !.show_tables = show,
                             !.structure = [AllFine EXCEPT
                                              !["gam_impressions"] = g,
                                              !["gads_costs"] = c]] :
     setup \in {"ok", "raises"}, show \in ShowTablesAnswers,
     g \in StructureStages, c \in StructureStages}

(* search_columns: every listing and every pattern of answers of DESCRIBE *)
SearchWorlds ==
  {[PlainWorld(setup) EXCEPT !.show_tables = show, !.describe = describe] :
     setup \in {"ok", "raises"}, show \in ShowTablesAnswers,
     describe \in [TableNames -> DescribeAnswers]}

(* test_plausible_token: no token, the empty token, and a token with every
   pattern of answers of the four candidates *)
TokenWorlds ==
  {[PlainWorld("ok") EXCEPT !.token = token, !.token_probes = answers] :
     token \in {NULL, Some("")}, answers \in {FirstUp}}
  \cup
  {[PlainWorld("ok") EXCEPT !.token = Some("token"),
                           !.token_probes = answers] :
     answers \in [DOMAIN api_urls -> TokenAnswers]}

(* get_plausible_visitors: the config of get_db_config and one with a
   site, with and without a page to filter on, and every answer *)
CallWorlds ==
  {[PlainWorld("ok") EXCEPT !.config = config_dict,
                           !.site_domain = site_domain,
                           !.stats = [d \in Domains |-> answer]] :
     config_dict \in {DbConfig, SiteConfig},
     site_domain \in {NULL, Some(""), Some("/home")},
     answer \in StatAnswers \cup {[kind |-> "ok", results |-> <<>>]}}

Worlds(s) ==
  (IF s \in WarehouseScripts THEN WarehouseWorlds ELSE {})
  \cup (IF s = "clickhouse_sites_only" THEN PromptWorlds ELSE {})
  \cup (IF s = "plausible_site_selector" THEN SelectorWorlds ELSE {})
  \cup (IF s \in PlausibleScripts
        THEN DetectWorlds \cup VisitorWorlds \cup PlausibleFaultWorlds
        ELSE {})
  \cup (IF s = "explore_database" THEN ExploreWorlds ELSE {})
  \cup (IF s = "search_columns" THEN SearchWorlds ELSE {})
  \cup (IF s = "test_plausible_token" THEN TokenWorlds ELSE {})
  \cup (IF s = "plausible_integration.get_plausible_visitors"
        THEN CallWorlds ELSE {})

(* the locals of main before its first statement *)
NoLocals ==
  [sites_df |-> EmptyFrame, selected |-> <<>>, requests_df |-> EmptyFrame,
   all_sites |-> <<>>, api_base |-> NULL, visitors_df |-> EmptyFrame,
   pos |-> 1, detects |-> 0, tables |-> <<>>, at |-> 1,
   found_columns |-> <<>>]

NoReturn == [helper |-> "", query |-> "", frame |-> EmptyFrame]

Scripts ==
  WarehouseScripts \cup PlausibleScripts \cup CatalogScripts
    \cup {"test_plausible_token",
          "plausible_integration.get_plausible_visitors"}

InitScripts ==
  /\ script \in Scripts
  /\ world \in Worlds(script)
  /\ loc = NoLocals
  /\ ret = NoReturn
  /\ http = <<>>
  /\ saved = EmptyFrame
  /\ pc = IF script = "test_plausible_token" THEN "test_token"
          ELSE IF script = "plausible_integration.get_plausible_visitors"
          THEN "call"
          ELSE "setup"
  /\ log = {}
  /\ queries = <<>>
  /\ exit_code = -1
  /\ env = GoodEnv
  /\ faults = {}
  /\ now = Clock
  /\ cost_feed = <<>>
  /\ rev_feed = <<>>
  /\ config = [loaded |-> FALSE]
  /\ dates = [set |-> FALSE]
  /\ cte = [set |-> FALSE]
  /\ df = <<>>
  /\ df_columns = <<>>
  /\ csv = [exists |-> FALSE, header |-> FALSE, rows |-> <<>>]
  /\ alerts = <<>>
  /\ run = 1
  /\ prev_df = <<>>

SpecScripts == InitScripts /\ [][NextScripts]_vars

(* what the claims speak of, read off the tables *)

ReportDay == dates.yday_sp
Threshold == MAX_REVENUE * RevOne

SiteIds == {cost_feed[i].site_id : i \in DOMAIN cost_feed}
             \cup {rev_feed[i].site_id : i \in DOMAIN rev_feed}

CostAmount == [i \in DOMAIN cost_feed |-> cost_feed[i].metrics_cost]
RevAmount == [i \in DOMAIN rev_feed |-> rev_feed[i].ad_revenue]

(* the cost records of site s whose local time falls on the reporting date *)
CostDayRows(s) ==
  {i \in DOMAIN cost_feed :
     /\ cost_feed[i].site_id = s
     /\ toDate(toTimeZone(cost_feed[i].timestamp)) = ReportDay}

FullDayCost(s) == SumSet(CostDayRows(s), CostAmount)

(* the revenue records of site s on the reporting date, and those among
   them at ts_max *)
RevDayRows(s) ==
  {i \in DOMAIN rev_feed : rev_feed[i].site_id = s /\ rev_feed[i].date = ReportDay}

TopRows(idx) ==
  {i \in idx : \A j \in idx : rev_feed[j].timestamp <= rev_feed[i].timestamp}

RevenueAtTsMax(s) == SumSet(TopRows(RevDayRows(s)), RevAmount)

TotalRevenue(s) == IF RevDayRows(s) = {} THEN 0 ELSE RevenueAtTsMax(s)

(* the revenue records of site s dated report date - lookback_days through
   the report date *)
LookbackRows(s) ==
  {i \in DOMAIN rev_feed :
     /\ rev_feed[i].site_id = s
     /\ rev_feed[i].date >= ReportDay - LOOKBACK_DAYS
     /\ rev_feed[i].date <= ReportDay}

DomainsOf(idx) == {rev_feed[i].domain : i \in idx}

Listed(s) == \E i \in DOMAIN df : df[i].site_id = s

(* the main query has returned; df holds its rows at "queried" and the
   post-processed rows afterwards *)
Queried == cte.set
Emitted == cte.set /\ pc # "queried"

----------------------------------------------------------------------------
(* C1, as stated: every row of the output, also after the post-processing,
   has cost > 0 and a site with cost records on the reporting date. *)
C1_EveryRowCostPositive ==
  Queried => \A i \in DOMAIN df :
               df[i].cost > 0 /\ CostDayRows(df[i].site_id) # {}

(* C1, amended: every row of the output belongs to a site with cost records
   on the reporting date and a cost aggregate > 0; the row final_sql returns
   has cost > 0, and the emitted row has that aggregate rounded to 2
   decimals, which is >= 0 and is 0.00 for an aggregate under half a cent. *)
C1_AnchorSet ==
  Queried => \A i \in DOMAIN df :
    LET s == df[i].site_id
    IN  /\ CostDayRows(s) # {}
        /\ s \in DOMAIN cte.cost_sites
        /\ cte.cost_sites[s] > 0
        /\ pc = "queried" => df[i].cost > 0
        /\ Emitted => df[i].cost = round_cost(cte.cost_sites[s]) /\ df[i].cost >= 0

C1_Witness ==
  /\ Emitted
  /\ \E i \in DOMAIN df : df[i].cost = 0 /\ cte.cost_sites[df[i].site_id] > 0

(* C2: the cost of every output row is the sum of all cost records of the
   site on the reporting date (rounded to 2 decimals once emitted). *)
C2_FullDayCostSum ==
  Queried => \A i \in DOMAIN df :
    df[i].cost = IF pc = "queried" THEN FullDayCost(df[i].site_id)
                 ELSE round_cost(FullDayCost(df[i].site_id))

(* C3: for every site with revenue records on the reporting date, the
   revenue is the sum over exactly the records at ts_max, and an output row
   of the site carries it (rounded to 6 decimals once emitted). *)
C3_RevenueLatestOnly ==
  Queried => \A s \in SiteIds :
    RevDayRows(s) # {} =>
      /\ s \in DOMAIN cte.revenue_latest
      /\ cte.revenue_latest[s] = RevenueAtTsMax(s)
      /\ \A i \in DOMAIN df :
           df[i].site_id = s =>
             df[i].revenue = IF pc = "queried" THEN RevenueAtTsMax(s)
                             ELSE round_revenue(RevenueAtTsMax(s))

C3_Witness ==
  /\ pc = "queried"
  /\ \E i \in DOMAIN df :
       LET day == RevDayRows(df[i].site_id)
       IN  /\ TopRows(day) # day
           /\ \E j \in day \ TopRows(day) : rev_feed[j].ad_revenue > 0
           /\ df[i].revenue = RevenueAtTsMax(df[i].site_id)

(* C4: a site other than site 0 is in the output iff the sum of all its
   cost records of the reporting date is > 0 and its revenue is <= the
   threshold. *)
C4_InclusionIff ==
  Queried => \A s \in SiteIds \ {0} :
    Listed(s) <=> (FullDayCost(s) > 0 /\ TotalRevenue(s) <= Threshold)

(* C5: every row has revenue <= MAX_REVENUE, before and after the rounding
   to 6 decimals; a site with a cost aggregate whose revenue equals the
   threshold is in the output, one whose revenue exceeds it is not. *)
C5_ThresholdInclusive ==
  Queried =>
    /\ \A i \in DOMAIN df : df[i].revenue <= Threshold
    /\ \A s \in DOMAIN cte.cost_sites \ {0} :
         /\ TotalRevenue(s) = Threshold => Listed(s)
         /\ TotalRevenue(s) > Threshold => ~Listed(s)

C5_Witness ==
  /\ Emitted
  /\ \E i \in DOMAIN df :
       df[i].revenue = Threshold /\ TotalRevenue(df[i].site_id) = Threshold

(* C6: a site other than site 0 with a cost aggregate and no revenue record
   on the reporting date is in the output, with revenue 0. *)
C6_RevenueDefaultsToZero ==
  Queried => \A s \in DOMAIN cte.cost_sites \ {0} :
    RevDayRows(s) = {} =>
      /\ Listed(s)
      /\ \A i \in DOMAIN df : df[i].site_id = s => df[i].revenue = 0

C6_Witness ==
  /\ Emitted
  /\ \E i \in DOMAIN df :
       RevDayRows(df[i].site_id) = {} /\ df[i].revenue = 0

(* C7: a row's domain is the site's same-date domain (the domain of a record
   at ts_max) when the site has revenue records on the reporting date, else
   the fallback domain when there is one, else "unknown".  Violated: with
   the fill of the server's default join_use_nulls the row of a site
   without revenue records carries the empty text. *)
C7_DomainPrecedence ==
  Queried => \A i \in DOMAIN df :
    LET s == df[i].site_id
    IN  IF RevDayRows(s) # {}
        THEN /\ s \in DOMAIN cte.domain_yday
             /\ df[i].domain = cte.domain_yday[s]
             /\ df[i].domain \in DomainsOf(TopRows(RevDayRows(s)))
        ELSE IF s \in DOMAIN cte.domain_recent
        THEN df[i].domain = cte.domain_recent[s]
        ELSE df[i].domain = "unknown"

(* C8: the fallback domain of a site is the domain of its latest revenue
   record dated report date - lookback_days through the report date, and a
   row of a site with no record on the report date but one in that window
   carries it, not "unknown". *)
C8_FallbackWindow ==
  Queried => \A s \in SiteIds :
    LookbackRows(s) # {} =>
      /\ s \in DOMAIN cte.domain_recent
      /\ cte.domain_recent[s] \in DomainsOf(TopRows(LookbackRows(s)))
      /\ \A i \in DOMAIN df :
           (df[i].site_id = s /\ RevDayRows(s) = {}) =>
             df[i].domain \in DomainsOf(TopRows(LookbackRows(s)))

----------------------------------------------------------------------------
(* C9, as stated: in the table, also as emitted after the rounding, rows
   are non-decreasing in revenue and, among rows of equal revenue,
   non-increasing in cost. *)
C9_SortedAsEmitted ==
  Queried => \A i, j \in DOMAIN df :
    i < j => /\ df[i].revenue <= df[j].revenue
             /\ df[i].revenue = df[j].revenue => df[i].cost >= df[j].cost

(* C9, amended: rows are non-decreasing in revenue, before and after the
   rounding, and non-increasing in cost among rows whose revenue is equal
   before the rounding to 6 decimals; rows whose revenues differ only below
   the sixth decimal are emitted with equal revenue in either cost order. *)
C9_SortOrder ==
  Queried => \A i, j \in DOMAIN df :
    i < j => /\ df[i].revenue <= df[j].revenue
             /\ TotalRevenue(df[i].site_id) = TotalRevenue(df[j].site_id)
                  => df[i].cost >= df[j].cost

C9_Witness ==
  /\ Emitted
  /\ \E i, j \in DOMAIN df :
       /\ i < j
       /\ TotalRevenue(df[i].site_id) = TotalRevenue(df[j].site_id)
       /\ df[i].revenue = df[j].revenue
       /\ df[i].cost > df[j].cost

(* C10: a second run over the same tables and configuration ends with the
   same ordered rows as the first. *)
C10_RerunIdentical ==
  (run = 2 /\ pc = "exit" /\ exit_code = 0) => df = prev_df

----------------------------------------------------------------------------
(* the values final_sql computes for a site before any rounding *)
QueryCost(s) == cte.cost_sites[s]
QueryRevenue(s) ==
  IF s \in DOMAIN cte.revenue_latest THEN cte.revenue_latest[s] ELSE 0

CentUnit == CostOne \div 100
MicroUnit == RevOne \div 1000000

Dist(a, b) == IF a >= b THEN a - b ELSE b - a

(* the data rows that left the program: the rows of the CSV file and the
   preview rows of the alerts *)
ArtifactRows ==
  {csv.rows[i] : i \in DOMAIN csv.rows}
    \cup UNION {{alerts[k].preview[i] : i \in DOMAIN alerts[k].preview} :
                  k \in DOMAIN alerts}

(* the amount of n ticks, `one` ticks to 1.0, is a float64 and lies
   half-way between two multiples of unit: n / one is a fraction whose
   denominator in lowest terms is a power of two *)
RECURSIVE IsPowerOfTwo(_)
IsPowerOfTwo(k) == k = 1 \/ (k % 2 = 0 /\ IsPowerOfTwo(k \div 2))
ExactHalf(n, one, unit) ==
  /\ 2 * (n % unit) = unit
  /\ IsPowerOfTwo(one \div gcd(one, n))

(* C11: in every emitted artifact with data rows, each cost is a whole
   number of cents (2 decimals) and each revenue a whole number of
   millionths (6 decimals), and each is the query's value rounded to the
   nearest such multiple, an exact half always to the even one. *)
C11_RoundedArtifact ==
  \A r \in ArtifactRows :
    /\ r.cost % CentUnit = 0
    /\ r.revenue % MicroUnit = 0
    /\ 2 * Dist(r.cost, QueryCost(r.site_id)) <= CentUnit
    /\ 2 * Dist(r.revenue, QueryRevenue(r.site_id)) <= MicroUnit
    /\ ExactHalf(QueryCost(r.site_id), CostOne, CentUnit)
         => (r.cost \div CentUnit) % 2 = 0
    /\ ExactHalf(QueryRevenue(r.site_id), RevOne, MicroUnit)
         => (r.revenue \div MicroUnit) % 2 = 0
    /\ r.cost = round_cost(QueryCost(r.site_id))
    /\ r.revenue = round_revenue(QueryRevenue(r.site_id))

(* a cost of 1.015 in the file as 1.01 and a revenue of 0.0078125 as
   0.007812, the same row in the alert *)
C11_Witness ==
  /\ csv.exists /\ alerts # <<>>
  /\ \E i \in DOMAIN csv.rows :
       /\ QueryCost(csv.rows[i].site_id) = 1015
       /\ csv.rows[i].cost = 1010
       /\ QueryRevenue(csv.rows[i].site_id) = 78125
       /\ csv.rows[i].revenue = 78120
       /\ alerts[1].preview[i] = csv.rows[i]

(* no two rows of the sequence d belong to the same site *)
OneRowPerSite(d) ==
  \A i, j \in DOMAIN d : d[i].site_id = d[j].site_id => i = j

(* C12: the output has at most one row per site_id, whatever the tables
   hold: in the rows final_sql returns, in the emitted rows, in the CSV file
   and in every alert preview. *)
C12_OneRowPerSite ==
  /\ Queried => OneRowPerSite(df)
  /\ OneRowPerSite(csv.rows)
  /\ \A k \in DOMAIN alerts : OneRowPerSite(alerts[k].preview)

C12_Witness ==
  /\ pc = "exit" /\ Len(csv.rows) = 1 /\ alerts # <<>>
  /\ LET s == csv.rows[1].site_id
     IN  /\ Cardinality(CostDayRows(s)) >= 2
         /\ Cardinality(TopRows(RevDayRows(s))) >= 2
         /\ Cardinality(DomainsOf(RevDayRows(s))) >= 2

(* C13: with FILTER_SITE_ID0 set, no row the query returns, no emitted row,
   no row of the CSV file and no alert preview row has site_id 0, also when
   site 0 has a cost aggregate > 0 and revenue <= the threshold. *)
C13_NoSiteZero ==
  FILTER_SITE_ID0 =>
    /\ Queried => \A i \in DOMAIN df : df[i].site_id # 0
    /\ \A r \in ArtifactRows : r.site_id # 0

C13_Witness ==
  /\ FILTER_SITE_ID0
  /\ pc = "exit" /\ csv.rows # <<>> /\ alerts # <<>>
  /\ 0 \in DOMAIN cte.cost_sites
  /\ cte.cost_sites[0] > 0
  /\ TotalRevenue(0) <= Threshold

(* send_discord_alert was entered and returned *)
AlertTags == {"alert_no_webhook", "alert_ok", "alert_error"}

(* neither df.to_csv nor the header-only write of line 347 can write *)
FileUnwritable == {"to_csv", "csv_fallback"} \subseteq faults

(* C14: when the main query returns no row the run ends with exit status 0,
   the CSV file holds the header row and nothing else, and
   send_discord_alert is not called (the only run that ends otherwise is
   one in which the file cannot be written at all); an alert is posted only
   for an output of at least one row. *)
C14_EmptyIsSuccess ==
  /\ (pc = "exit" /\ Queried /\ df = <<>>) =>
       /\ alerts = <<>>
       /\ log \cap AlertTags = {}
       /\ exit_code = (IF FileUnwritable THEN 1 ELSE 0)
       /\ exit_code = 0 =>
            /\ csv.exists /\ csv.header /\ csv.rows = <<>>
            /\ "no_sites" \in log
  /\ (pc = "saved" /\ df = <<>>) => csv.exists /\ csv.header /\ csv.rows = <<>>
  /\ \A k \in DOMAIN alerts : Len(df) >= 1 /\ alerts[k].num_sites >= 1

C14_Witness ==
  /\ pc = "exit" /\ Queried /\ df = <<>>
  /\ DOMAIN cte.cost_sites # {}
  /\ \A s \in DOMAIN cte.cost_sites : TotalRevenue(s) > Threshold
  /\ exit_code = 0 /\ csv.exists /\ csv.rows = <<>> /\ alerts = <<>>

(* the messages of the three fatal stages: configuration, connection and
   main query *)
FatalTags == {"config_error", "connect_error", "final_error"}

(* C15: when the configuration loading, the connection or the main query
   fails, nothing else of main runs, the handler of __main__ tries to write
   the header-only file (and prints whether it could), no alert is sent and
   the exit status is 1. *)
C15_FailurePropagation ==
  log \cap FatalTags # {} =>
    /\ pc \in {"raised", "exit"}
    /\ alerts = <<>>
    /\ log \cap AlertTags = {}
    /\ log \cap {"csv_ok", "csv_error", "success"} = {}
    /\ pc = "exit" =>
         /\ exit_code = 1
         /\ "critical" \in log
         /\ IF "handler_csv" \in faults
            THEN "handler_csv_error" \in log /\ ~csv.exists
            ELSE /\ "handler_csv_ok" \in log
                 /\ csv.exists /\ csv.header /\ csv.rows = <<>>

C15_Witness ==
  /\ pc = "exit" /\ exit_code = 1
  /\ "final_error" \in log
  /\ cost_feed # <<>>
  /\ csv.exists /\ csv.header /\ csv.rows = <<>>
  /\ alerts = <<>>

(* the four variables get_db_config requires, and whether the .env file
   gives each a non-empty value *)
RequiredVars == {"url", "db", "usr", "pwd"}
Present(k) == env[k] # NULL /\ Len(Text(env[k])) > 0

(* C16: when one of CLICKHOUSE_URL, _DATABASE, _USER, _PASSWORD is missing
   or empty the run raises in get_db_config, before a client is created and
   before any query; when the four are present the configuration loads,
   whether or not DISCORD_WEBHOOK_URL and MENTION_IDS are set. *)
C16_ConfigFirst ==
  /\ (\E k \in RequiredVars : ~Present(k)) =>
       /\ pc \in {"start", "raised", "exit"}
       /\ ~config.loaded
       /\ log \cap {"config_ok", "connect_ok", "connect_error"} = {}
       /\ queries = <<>>
       /\ pc # "start" => "config_error" \in log
       /\ pc = "exit" => exit_code = 1
  /\ (\A k \in RequiredVars : Present(k)) =>
       /\ "config_error" \notin log
       /\ pc # "start" => config.loaded /\ "config_ok" \in log

C16_Witness ==
  /\ pc = "exit" /\ exit_code = 1
  /\ env.db = Some("") /\ Present("url") /\ Present("usr") /\ Present("pwd")
  /\ "config_error" \in log
  /\ queries = <<>>

(* the queries of the run that raised *)
FailedQueries == {i \in DOMAIN queries : (queries[i] \o "_error") \in log}

(* C17: once a query issued to the data source has failed, no later query
   is issued, no data row is written, no alert is sent and the run ends
   with a non-zero exit status. *)
C17_FailedQueryTerminal ==
  \A i \in FailedQueries :
    /\ i = Len(queries)
    /\ csv.rows = <<>>
    /\ alerts = <<>>
    /\ pc = "exit" => exit_code # 0

(* send_discord_alert was called with a webhook and a non-empty df after
   df.to_csv had written the rows, and it failed: requests raised a
   RequestException, or something else was raised in lines 64-87 *)
AlertFailed ==
  /\ config.loaded /\ truthy(config.webhook_url)
  /\ "csv_ok" \in log /\ df # <<>>
  /\ faults \cap {"post", "alert_other"} # {}
  /\ pc \in {"done", "raised", "exit"}

(* C18: however the alert step fails once called with a non-empty result,
   the failure is logged, the exit status is 0 and the CSV file keeps the
   data rows written before. *)
C18_NotifierNonFatal ==
  AlertFailed =>
    /\ "alert_error" \in log
    /\ pc # "raised"
    /\ csv.rows = df
    /\ pc = "exit" => exit_code = 0

(* the run got past the CSV step with rows to report *)
AlertStepDone ==
  /\ pc \in {"done", "exit"}
  /\ Queried /\ df # <<>>
  /\ log \cap {"csv_ok", "csv_error"} # {} /\ ~FileUnwritable

NoWebhook == env.webhook_url = NULL \/ env.webhook_url = Some("")

(* the file the CSV step leaves for the frame df *)
CsvAfterSave ==
  IF "to_csv" \in faults THEN [exists |-> TRUE, header |-> TRUE, rows |-> <<>>]
  ELSE [exists |-> TRUE, header |-> TRUE, rows |-> df]

(* a configured webhook whose post succeeds *)
PostSucceeds ==
  /\ ~NoWebhook /\ Text(env.webhook_url) \in Webhooks
  /\ faults \cap {"post", "alert_other"} = {}

(* C19: without a webhook URL (None or empty) send_discord_alert posts
   nothing, prints the warning and returns, whatever would make a post
   fail; the run then ends with the exit status and the CSV file of a run
   whose post succeeds: status 0 and the file the CSV step left. *)
C19_NoWebhookNoOp ==
  /\ NoWebhook =>
       /\ alerts = <<>>
       /\ log \cap {"alert_ok", "alert_error"} = {}
       /\ AlertStepDone => "alert_no_webhook" \in log
  /\ (AlertStepDone /\ (NoWebhook \/ PostSucceeds)) =>
       /\ csv = CsvAfterSave
       /\ pc = "exit" => exit_code = 0
       /\ NoWebhook <=> "alert_no_webhook" \in log
       /\ ~NoWebhook <=> "alert_ok" \in log

C19_Witness ==
  /\ pc = "exit" /\ exit_code = 0
  /\ env.webhook_url = Some("")
  /\ "alert_no_webhook" \in log
  /\ df # <<>> /\ csv.rows = df
  /\ alerts = <<>>

(* C20: every posted alert states the number of rows of the emitted output,
   the threshold MAX_REVENUE of the filter, the first min(len, 50) rows of
   the output in output order, and the name of the CSV file; its content is
   the mention ids, and the empty string when there are none. *)
C20_AlertContent ==
  \A k \in DOMAIN alerts :
    LET a == alerts[k]
    IN  /\ a.num_sites = Len(df)
        /\ "csv_ok" \in log => a.num_sites = Len(csv.rows)
        /\ a.threshold = MAX_REVENUE
        /\ Len(a.preview) = Min(Len(df), PREVIEW_ROWS)
        /\ \A i \in DOMAIN a.preview : a.preview[i] = df[i]
        /\ a.report = OUT_CSV
        /\ a.report_date = ReportDay
        /\ a.content = (IF env.mention_ids = NULL
                             \/ env.mention_ids = Some("")
                        THEN "" ELSE Text(env.mention_ids))

C20_Witness ==
  /\ alerts # <<>>
  /\ Len(df) > PREVIEW_ROWS
  /\ Len(df) < Len(cost_feed)
  /\ alerts[1].num_sites = Len(df)
  /\ Len(alerts[1].preview) = PREVIEW_ROWS
  /\ env.mention_ids = NULL /\ alerts[1].content = ""

(* the stages of the run that have failed so far *)
ConfigFailed == pc # "start" /\ (\E k \in RequiredVars : ~Present(k))
ConnectFailed ==
  /\ config.loaded /\ pc # "loaded"
  /\ \/ "connect" \in faults
     \/ ~urlparse_may(Text(config.url), FALSE)
CsvWriteFailed ==
  Queried /\ "to_csv" \in faults /\ pc \in {"saved", "done", "raised", "exit"}
NotifyFailed ==
  /\ Queried /\ df # <<>> /\ truthy(config.webhook_url)
  /\ log \cap {"csv_ok", "csv_error"} # {} /\ ~FileUnwritable
  /\ faults \cap {"post", "alert_other"} # {}
  /\ pc \in {"done", "raised", "exit"}

(* C21: every failure of the run (configuration, connection, each query,
   CSV write, notification) has its own message in the log, naming the
   stage and, for a query, which query it was. *)
C21_EveryFailureNamed ==
  /\ ConfigFailed => "config_error" \in log
  /\ ConnectFailed => "connect_error" \in log
  /\ \A i \in DOMAIN queries :
       queries[i] \in faults => (queries[i] \o "_error") \in log
  /\ CsvWriteFailed => "csv_error" \in log
  /\ NotifyFailed => "alert_error" \in log

(* C22: when an alert is posted the CSV file has been written and holds
   exactly the rows the alert counts and previews, also when df.to_csv
   failed and the header-only file was written instead. *)
C22_ArtifactBeforeAlert ==
  \A k \in DOMAIN alerts :
    /\ csv.exists /\ csv.header
    /\ Len(csv.rows) = alerts[k].num_sites
    /\ alerts[k].preview = SubSeq(csv.rows, 1, Min(Len(csv.rows), PREVIEW_ROWS))

(* C23: a run that ends with exit status 1 leaves, when the handler can
   write, the header-only file, whatever rows were written before; a run
   that ends with exit status 0 leaves the file holding exactly the
   output rows. *)
C23_ExitStatusVsArtifact ==
  pc = "exit" =>
    /\ (exit_code = 1 /\ "handler_csv" \notin faults) =>
         csv.exists /\ csv.header /\ csv.rows = <<>>
    /\ exit_code = 0 => csv.exists /\ csv.header /\ csv.rows = df

(* C24, as stated: with LOOKBACK_DAYS = 1 the fallback window starts on the
   reporting date, so a site has a fallback domain only when it has a
   same-date domain, and the domain of every output row is the site's
   same-date domain or "unknown". *)
C24_FallbackNeverSupplies ==
  /\ dates.set => dates.start_lb = dates.yday_sp
  /\ Queried =>
       /\ DOMAIN cte.domain_recent \subseteq DOMAIN cte.domain_yday
       /\ \A i \in DOMAIN df :
            LET s == df[i].site_id
            IN  IF RevDayRows(s) # {}
                THEN df[i].domain = cte.domain_yday[s]
                ELSE df[i].domain = "unknown"

(* C24, amended: the fallback never supplies a domain: the fallback window
   is the reporting date, a site has a fallback domain only when it has a
   same-date domain, the row of a site with revenue records on the
   reporting date carries the same-date domain, and the row of a site
   without them carries what the two LEFT JOINs leave for the missing
   rows: "unknown" when they fill with NULL, the empty text when they fill
   with the default of a String column. *)
C24_FallbackNeverSuppliesAmended ==
  /\ dates.set => dates.start_lb = dates.yday_sp
  /\ Queried =>
       /\ DOMAIN cte.domain_recent \subseteq DOMAIN cte.domain_yday
       /\ \A i \in DOMAIN df :
            LET s == df[i].site_id
            IN  IF RevDayRows(s) # {}
                THEN df[i].domain = cte.domain_yday[s]
                ELSE df[i].domain \in {"unknown", ""}

(* a site whose only revenue record is dated the day before the reporting
   date is emitted with the empty text for its domain *)
C24_Witness ==
  /\ Emitted
  /\ \E i \in DOMAIN df :
       /\ df[i].domain = ""
       /\ RevDayRows(df[i].site_id) = {}
       /\ \E j \in DOMAIN rev_feed :
            /\ rev_feed[j].site_id = df[i].site_id
            /\ rev_feed[j].date = ReportDay - 1

(* the cost records of site s at the latest timestamp of the reporting
   date, and their sum *)
TopCostRows(s) ==
  {i \in CostDayRows(s) :
     \A j \in CostDayRows(s) : cost_feed[j].timestamp <= cost_feed[i].timestamp}

CostAtTsMax(s) == SumSet(TopCostRows(s), CostAmount)

(* C25: a cost record counts for the reporting date iff its timestamp in
   America/Sao_Paulo falls on it; a revenue record counts iff its `date`
   column is the reporting date, whatever its timestamp, and ts_max is the
   latest local timestamp among those records. *)
C25_DayMembership ==
  Queried => \A s \in SiteIds :
    /\ s \in DOMAIN cte.cost_sites <=> (CostDayRows(s) # {} /\ CostAtTsMax(s) > 0)
    /\ s \in DOMAIN cte.cost_sites => cte.cost_sites[s] = CostAtTsMax(s)
    /\ s \in DOMAIN cte.revenue_latest <=> RevDayRows(s) # {}
    /\ s \in DOMAIN cte.revenue_latest =>
         /\ cte.revenue_latest[s] = RevenueAtTsMax(s)
         /\ cte.domain_yday[s] \in DomainsOf(TopRows(RevDayRows(s)))

(* ts_max lies on another local day than the reporting date, a revenue
   record of the reporting date by timestamp is left out for its `date`,
   and a cost record of the reporting date by UTC day is left out *)
C25_Witness ==
  /\ Emitted /\ df # <<>>
  /\ \E i \in TopRows(RevDayRows(df[1].site_id)) :
       /\ toDate(toTimeZone(rev_feed[i].timestamp)) # ReportDay
       /\ df[1].revenue = round_revenue(rev_feed[i].ad_revenue)
       /\ df[1].domain = rev_feed[i].domain
  /\ \E i \in DOMAIN cost_feed :
       /\ cost_feed[i].timestamp \div 24 = ReportDay
       /\ toDate(toTimeZone(cost_feed[i].timestamp)) # ReportDay
       /\ df[1].cost # round_cost(cost_feed[i].metrics_cost)


(* a warehouse helper has returned and its query had raised *)
HelperFailed == ret.helper # "" /\ ~world[ret.query].ok

(* C26: in the query helpers of the surrounding scripts a failed warehouse
   query is never turned into an empty table: whenever a helper has
   returned after its query raised, the frame it returned is not empty, so
   the caller's .empty test tells a failed query from one without rows *)
C26_NoSilentSubstitution == HelperFailed => ~is_empty(ret.frame)


(* plausible_integration has returned after both tables were non-empty
   and with a writable result file *)
CrossReached ==
  /\ script = "plausible_integration"
  /\ pc = "return"
  /\ ~is_empty(loc.requests_df)
  /\ ~is_empty(loc.visitors_df)
  /\ world.to_csv = "ok"

(* C27: cross_data in plausible_integration: when the requests table and
   the visitors table of get_visitors_for_all_sites are both non-empty,
   main returns 0 and has saved the left merge: every requests row, in
   order, once per matching visitors row or once without visitors *)
C27_CrossSaved ==
  CrossReached =>
    /\ exit_code = 0
    /\ ~is_empty(saved)
    /\ Len(saved.rows) >= Len(loc.requests_df.rows)
    /\ \A i \in DOMAIN loc.requests_df.rows :
         \E j \in DOMAIN saved.rows :
           /\ saved.rows[j].domain = loc.requests_df.rows[i].domain
           /\ saved.rows[j].date_requests = loc.requests_df.rows[i].date
           /\ saved.rows[j].total_requests
                = loc.requests_df.rows[i].total_requests


(* the first detection of the run has just ended: in main of
   plausible_site_selector and list_plausible_visitors_yesterday, or inside
   get_all_sites_from_plausible of plausible_integration, whose GET /sites
   follows the probes *)
DetectedInMain ==
  /\ script \in PlausibleScripts \ {"plausible_integration"}
  /\ loc.detects = 1
  /\ pc = "all_sites" \/ (pc = "return" /\ "no_api" \in log)

DetectedInHelper ==
  /\ script = "plausible_integration"
  /\ loc.detects = 1
  /\ pc \in {"detect", "return"}

(* the candidates that answer 200 at the first detection *)
Up == {i \in DOMAIN api_urls : world.probes[1][i] = "200"}

(* the requests of the detection are those before the GET /sites of the
   helper *)
Probed ==
  IF DetectedInHelper /\ Up # {} THEN SubSeq(http, 1, Len(http) - 1)
  ELSE http

(* what the detection returned: kept by main, or used by the helper for
   its GET /sites *)
Detected ==
  IF DetectedInMain THEN loc.api_base
  ELSE IF Up = {} THEN NULL
  ELSE Some(CHOOSE u \in {api_urls[i] : i \in DOMAIN api_urls} :
              http[Len(http)] = u \o "/sites")

(* C28: detect_plausible_api_version probes the candidates wearenalytics
   v1, wearenalytics v2, plausible.io v1, plausible.io v2 in this order,
   at most four requests; it stops at the first candidate whose /sites
   answers 200 and returns it; it returns None exactly when none answers
   200; a request error only moves on to the next candidate and main ends
   with its own message, not in the exception handler *)
C28_Detection ==
  (DetectedInMain \/ DetectedInHelper) =>
    /\ api_urls = <<"https://wearenalytics.com/api/v1",
                    "https://wearenalytics.com/api/v2",
                    "https://plausible.io/api/v1",
                    "https://plausible.io/api/v2">>
    /\ Len(Probed) <= 4
    /\ \A i \in DOMAIN Probed : Probed[i] = api_urls[i] \o "/sites"
    /\ \A i \in DOMAIN Probed : i < Len(Probed) => i \notin Up
    /\ (Up = {}) <=> (Detected = NULL)
    /\ Up = {} => Len(Probed) = 4 /\ pc = "return" /\ exit_code = 1
                    /\ "fatal" \notin log
    /\ Up # {} => Len(Probed) \in Up /\ Detected = Some(api_urls[Len(Probed)])

(* a request error, a 500 and then 200 from plausible.io v1 *)
C28_Witness ==
  /\ DetectedInMain
  /\ world.probes[1] = <<"RequestException", "500", "200", "404">>
  /\ loc.api_base = Some("https://plausible.io/api/v1")
  /\ Len(http) = 3


(* the sites handed to the visitors helper *)
VisitorSites ==
  IF script = "plausible_site_selector" THEN loc.selected ELSE loc.all_sites

(* the visitors helper has returned *)
VisitorsDone ==
  /\ script \in PlausibleScripts
  /\ ~is_empty(loc.visitors_df) \/ "no_visitors" \in log

(* the visitors a site with a good answer is given: the item of the day in
   list_plausible_visitors_yesterday, the sum of the items elsewhere *)
ExpectedVisitors(results) ==
  IF script = "list_plausible_visitors_yesterday"
  THEN IF \E j \in DOMAIN results : results[j].date = Yday
       THEN results[CHOOSE j \in DOMAIN results :
                      /\ results[j].date = Yday
                      /\ \A k \in 1..(j - 1) : results[k].date # Yday].visitors
       ELSE 0
  ELSE SumSeq([j \in DOMAIN results |-> results[j].visitors])

(* C29: get_visitors_for_all_sites and get_visitors_for_selected_sites
   return exactly one row per input site, in input order; a site whose
   request fails has visitors 0, and the sites after it are still
   requested and given their visitors *)
C29_OneRowPerSite ==
  VisitorsDone =>
    LET rows == loc.visitors_df.rows
        n == Len(VisitorSites)
    IN  /\ Len(rows) = n
        /\ \A i \in DOMAIN rows :
             LET a == world.stats[VisitorSites[i].domain]
             IN  /\ rows[i].domain = VisitorSites[i].domain
                 /\ a.kind # "ok" => rows[i].visitors = 0
                 /\ a.kind = "ok"
                      => rows[i].visitors = ExpectedVisitors(a.results)
        /\ Len(http) >= n
        /\ (pc = "cross" \/ script = "list_plausible_visitors_yesterday")
             => SubSeq(http, Len(http) - n + 1, Len(http))
                  = stats_requests(Text(loc.api_base), VisitorSites)

(* three sites, the first two fail in the two ways, the third is counted *)
C29_Witness ==
  /\ VisitorsDone
  /\ script = "plausible_integration"
  /\ Len(loc.visitors_df.rows) = 3
  /\ world.stats[loc.all_sites[1].domain].kind = "RequestException"
  /\ world.stats[loc.all_sites[2].domain].kind = "Exception"
  /\ loc.visitors_df.rows[1].visitors = 0
  /\ loc.visitors_df.rows[2].visitors = 0
  /\ loc.visitors_df.rows[3].visitors = 10


(* the selection loop: the lines read so far, and what each of them is *)
PromptShown ==
  /\ script \in InteractiveScripts /\ listed > 0
  /\ script = "clickhouse_sites_only"
       => \A i \in DOMAIN loc.sites_df.rows :
            loc.sites_df.rows[i].domain # NULL
Consumed == 1..(loc.pos - 1)
Is(p, word) == lower_is(strip(world.stdin[p]), word)
Tokens(p) == split(strip(world.stdin[p]))
Parsed(tok) == int(strip(tok), world.py)
Index(tok) == digits_value(Parsed(tok).digits)
InRange(tok) == Parsed(tok).ok /\ in_range(Parsed(tok), listed)

(* no query for the detail of the sites has been issued *)
NoDetailQuery ==
  \A i \in DOMAIN queries : queries[i] \notin {"detail", "requests"}

(* the line p is the one that ended the loop *)
EndsLoop(p) == p = loc.pos - 1 /\ pc # "select"

FirstEntries(n) == [i \in 1..n |-> listed_entry(i)]

(* a line that is no keyword and has a token that is no integer, or no
   token in range *)
Rejected(p, keywords) ==
  /\ \A word \in keywords : ~Is(p, word)
  /\ \/ \E t \in DOMAIN Tokens(p) : ~Parsed(Tokens(p)[t]).ok
     \/ \A t \in DOMAIN Tokens(p) : ~InRange(Tokens(p)[t])

(* the behaviour of the loop, with 'top10' known to both scripts or to
   clickhouse_sites_only alone, and with or without the end of the input
   as a way out *)
SelectionLoop(top10_in_both, eof_leaves) ==
  PromptShown =>
    LET keywords ==
          {QUIT, ALL}
            \cup (IF top10_in_both \/ script = "clickhouse_sites_only"
                  THEN {TOP10} ELSE {})
        by_quit ==
          /\ loc.pos > 1 /\ Is(loc.pos - 1, QUIT)
          /\ pc = "return" /\ exit_code = 0 /\ NoDetailQuery
        by_eof ==
          /\ eof_leaves
          /\ loc.pos = Len(world.stdin) + 1
          /\ \A p \in Consumed : Rejected(p, keywords)
          /\ loc.selected = <<>>
          /\ pc = "return" /\ exit_code = 1 /\ NoDetailQuery
    IN  /\ pc # "select" => by_quit \/ by_eof \/ loc.selected # <<>>
        /\ \A i \in DOMAIN loc.selected :
             \E k \in 1..listed :
               /\ loc.selected[i] = listed_entry(k)
               /\ (\A word \in keywords : ~Is(loc.pos - 1, word))
                    => \E t \in DOMAIN Tokens(loc.pos - 1) :
                         /\ InRange(Tokens(loc.pos - 1)[t])
                         /\ Index(Tokens(loc.pos - 1)[t]) = k
        /\ \A p \in Consumed :
             Rejected(p, keywords)
               => /\ ~EndsLoop(p) \/ by_eof
                  /\ pc = "select" => loc.selected = <<>>
        /\ \A p \in Consumed :
             Is(p, QUIT) => EndsLoop(p) /\ by_quit
        /\ \A p \in Consumed :
             Is(p, ALL)
               => EndsLoop(p) /\ loc.selected = FirstEntries(listed)
        /\ \A p \in Consumed :
             (TOP10 \in keywords /\ Is(p, TOP10))
               => /\ EndsLoop(p)
                  /\ loc.selected = FirstEntries(Min(listed, TOP_N))

(* C30: the selection loop of clickhouse_sites_only and
   plausible_site_selector is left only by 'quit' (return 0, no detail
   query) or with a non-empty selection; every selected entry is a listed
   site at a typed 1-based index in range; a line with a non-integer token
   or without an index in range selects nothing and prompts again; 'all'
   selects every listed site and 'top10' the first 10 in listed order *)
C30_SelectionLoop == SelectionLoop(TRUE, FALSE)

(* C30, amended: as above, but 'top10' selects the first 10 only in
   clickhouse_sites_only, while plausible_site_selector rejects it as an
   invalid line and prompts again; and the loop is also left when the
   input ends, by return 1 with nothing selected and no detail query *)
C30_SelectionLoopAmended == SelectionLoop(FALSE, TRUE)

(* the two amended cases in one run of plausible_site_selector with 12
   listed sites: 'top10' is rejected as an invalid line, the prompt comes
   again, and the end of the input leaves the loop by return 1 with
   nothing selected and no detail query *)
C30_Witness ==
  /\ script = "plausible_site_selector"
  /\ PromptShown
  /\ listed = ManyListed
  /\ world.stdin = <<TOP10>>
  /\ loc.pos = 2
  /\ "invalid_format" \in log
  /\ pc = "return" /\ exit_code = 1
  /\ loc.selected = <<>> /\ NoDetailQuery

=============================================================================
